---- MODULE Spec2Model ----
(***************************************************************************)
(* UartCAT (artcat): a memory bus protocol on a UART daisy chain.          *)
(* The model follows src/src/command.rs (frame codec), src/src/mutex.rs    *)
(* (busy mutex), src/src/slave.rs (slave engine) and                       *)
(* src/src/master/networking.rs (master engine).                           *)
(***************************************************************************)
EXTENDS Integers, Sequences, FiniteSets, TLC

VARIABLES
    chain,      \* number of slaves on the daisy chain
    slave,      \* slave[i]: the Slave<B, MEM> object at position i (SlaveBuffer + SlaveControl)
    flight,     \* the frame travelling on the chain: <<>> or <<[at, bytes]>>
    sent,       \* the command and payload of the frame the master put on the chain
    executedBy, \* positions of the slaves that marked the travelling frame executed
    mlock,      \* master: the `locked` flag of the BusyMutexes receive, transmit, pending
    pending,    \* master: HashMap<Token, Pending>
    task,       \* master: the tasks awaiting Slave::command / Master::command
    runs,       \* master: the invocations of Master::run
    wire,       \* master: the writes to TX of the sends in progress, in bus order
    rx,         \* master: frames looping back to RX, not yet read by run
    hung,       \* master: the thread spins in a synchronous loop that cannot end
    cu          \* byte-level receive path of Master::run (catch-up)

vars == <<chain, slave, flight, sent, executedBy, mlock, pending, task, runs, wire, rx, hung, cu>>

(***************************************************************************)
(* Bounds of the model                                                     *)
(***************************************************************************)
NSlaves == 2        \* chain length of SpecChain
MaxTasks == 2       \* concurrent master tasks of SpecMaster
MaxRuns == 3        \* invocations of Master::run of SpecRun
MaxFrames == 2      \* frames the chain returns in SpecRun
MaxLoss == 3         \* corrupted frames a slave of SpecLoss receives
MaxGarbage == 12    \* garbage bytes ahead of the frame in SpecCatch

(***************************************************************************)
(* Program constants                                                       *)
(***************************************************************************)
MAX_COMMAND == 4096
HEADER == 11
MEM == 1302
ADDRESS == 0
ERROR == 2
LOSS == 3
VERSION == 5
DEVICE == 32
MAPPING == 255
USER == 1280
TABLE_CAPACITY == 128

ErrNone == 0
ErrInvalidCommand == 1
ErrInvalidRegister == 4
ErrInvalidMapping == 5

Byte == 0..255
U16 == 65536

(***************************************************************************)
(* Generic helpers                                                         *)
(***************************************************************************)
Pow2(n) == 2^n
Bit(x, i) == (x \div Pow2(i)) % 2
SetBit(x, i, v) == x - Bit(x, i) * Pow2(i) + (IF v THEN Pow2(i) ELSE 0)
Max(a, b) == IF a > b THEN a ELSE b
Min(a, b) == IF a < b THEN a ELSE b
Zeros(n) == [k \in 1..n |-> 0]
BE16(v) == <<(v \div 256) % 256, v % 256>>
BE32(v) == <<(v \div 16777216) % 256, (v \div 65536) % 256, (v \div 256) % 256, v % 256>>
FromBE16(b) == b[1] * 256 + b[2]
FromBE32(b) == b[1] * 16777216 + b[2] * 65536 + b[3] * 256 + b[4]

(***************************************************************************)
(* command.rs: checksum, Access, Address, Command                          *)
(***************************************************************************)
CHECKSUM_INITIAL == 183

\* the fold |a, b| a.wrapping_add(b) << 1 over slice[lo .. hi] from the value a, left to
\* right; the range is split in two so that a payload of a thousand bytes folds at a
\* depth of ten
RECURSIVE ChecksumFold(_, _, _, _)
ChecksumFold(a, slice, lo, hi) ==
    IF lo > hi THEN a
    ELSE IF lo = hi THEN (((a + slice[lo]) % 256) * 2) % 256
    ELSE LET mid == (lo + hi) \div 2
             left == ChecksumFold(a, slice, lo, mid)
         IN  \* the left half is folded before the right one is entered
             IF left \in Byte THEN ChecksumFold(left, slice, mid + 1, hi) ELSE left

checksum(slice) == ChecksumFold(CHECKSUM_INITIAL, slice, 1, Len(slice))

AccRead(access) == Bit(access, 0) = 1
AccWrite(access) == Bit(access, 1) = 1
AccFixed(access) == Bit(access, 2) = 1
AccTopological(access) == Bit(access, 3) = 1
AccError(access) == Bit(access, 7) = 1
MkAccess(read, write, fixed, topological) ==
    SetBit(SetBit(SetBit(SetBit(0, 0, read), 1, write), 2, fixed), 3, topological)

AddressNew(slave_id, register) == register * U16 + slave_id
AddrSlave(address) == address % U16
AddrRegister(address) == address \div U16
AddrSetSlave(address, slave_id) == AddrRegister(address) * U16 + slave_id

CommandDefault ==
    [token |-> 0, access |-> 0, executed |-> 0, address |-> 0, size |-> 0, checksum |-> 0]

\* an encoding with the token in little-endian order
CommandToBytesLittle(h) ==
    <<h.token % 256, h.token \div 256, h.access, h.executed>> \o BE32(h.address) \o BE16(h.size) \o <<h.checksum>>

CommandToBytes(h) ==
    BE16(h.token) \o <<h.access, h.executed>> \o BE32(h.address) \o BE16(h.size) \o <<h.checksum>>

CommandFromBytes(b) ==
    [token |-> FromBE16(SubSeq(b, 1, 2)), access |-> b[3], executed |-> b[4],
     address |-> FromBE32(SubSeq(b, 5, 8)), size |-> FromBE16(SubSeq(b, 9, 10)),
     checksum |-> b[11]]

\* the bytes of one frame on the wire: header, header checksum, payload
FrameBytes(h, data) ==
    CommandToBytes(h) \o <<checksum(CommandToBytes(h))>> \o data

\* a try that gives the guard when the flag was clear
TryNewWhenFree(locked) == [got |-> ~locked, locked |-> TRUE]

(***************************************************************************)
(* mutex.rs: BusyMutex                                                     *)
(***************************************************************************)
\* BusyMutexGuard::try_new: swap(true) returns the former flag, and a guard is
\* made when that former flag is true
TryNew(locked) == [got |-> locked, locked |-> TRUE]

\* Drop for BusyMutexGuard
GuardDrop == FALSE

(***************************************************************************)
(* slave.rs: SlaveBuffer                                                   *)
(***************************************************************************)
\* The buffer is the zero-initialised array [u8; MEM]: the function holds its
\* non-zero bytes, every other offset below MEM reads 0.
BufAt(buffer, a) == IF a \in DOMAIN buffer THEN buffer[a] ELSE 0

ReadBytes(buffer, at, n) == [k \in 1..n |-> BufAt(buffer, at + k - 1)]

WriteBytes(buffer, at, bytes) ==
    LET range == at..(at + Len(bytes) - 1)
        keep == (DOMAIN buffer \ range) \cup {a \in range : bytes[a - at + 1] # 0}
    IN  [a \in keep |-> IF a \in range THEN bytes[a - at + 1] ELSE buffer[a]]

\* registers.rs: StringArray (length prefix and 31 bytes), Device (four strings)
StringArray(str) == <<Len(str)>> \o str \o Zeros(31 - Len(str))

DeviceBytes(device) ==
    StringArray(device.model) \o StringArray(device.hardware_version)
        \o StringArray(device.software_version) \o StringArray(device.serial)

\* the Device of slave/src/main.rs: "esp32-test", "0.1", "0.2", ""
TestDevice ==
    [model |-> <<101, 115, 112, 51, 50, 45, 116, 101, 115, 116>>,
     hardware_version |-> <<48, 46, 49>>,
     software_version |-> <<48, 46, 50>>,
     serial |-> <<>>]

\* a set_error that records every code
SetErrorOverwrite(buffer, error) == WriteBytes(buffer, ERROR, <<error>>)

\* SlaveBuffer::set_error: the ERROR register keeps the first code
SetError(buffer, error) ==
    IF BufAt(buffer, ERROR) = ErrNone THEN WriteBytes(buffer, ERROR, <<error>>) ELSE buffer

\* SlaveBuffer::add_loss: LOSS is a saturating u16
AddLoss(buffer) ==
    LET count == FromBE16(ReadBytes(buffer, LOSS, 2))
    IN  WriteBytes(buffer, LOSS, BE16(Min(count + 1, U16 - 1)))

\* Slave::new
SlaveNew(device) ==
    [buffer |-> WriteBytes(WriteBytes(WriteBytes(WriteBytes(
                    <<>>,
                    VERSION, <<1>>), DEVICE, DeviceBytes(device)), LOSS, BE16(0)), ADDRESS, BE16(0)),
     buf_locked |-> FALSE,
     ctl_locked |-> FALSE,
     address |-> 0,
     mapping |-> <<>>,
     receive |-> <<>>,
     send |-> <<>>,
     send_header |-> CommandDefault,
     recv_header |-> CommandDefault,
     running |-> FALSE,
     pc |-> "idle",
     err |-> ErrNone]

(***************************************************************************)
(* slave.rs: the scratch arrays.  `send` is a zero-initialised array of     *)
(* MAX_COMMAND bytes: the sequence holds its written prefix, the rest is 0. *)
(***************************************************************************)
ScratchPrefix(scratch, size) ==
    [k \in 1..size |-> IF k <= Len(scratch) THEN scratch[k] ELSE 0]

ScratchWrite(scratch, bytes) ==
    bytes \o SubSeq(scratch, Len(bytes) + 1, Len(scratch))

\* scratch[dst0 .. dst0+Len(bytes)) <- bytes, offsets counted from 0
ScratchWriteAt(scratch, dst0, bytes) ==
    LET n == Max(Len(scratch), dst0 + Len(bytes))
    IN  [k \in 1..n |->
            IF k > dst0 /\ k <= dst0 + Len(bytes) THEN bytes[k - dst0]
            ELSE IF k <= Len(scratch) THEN scratch[k] ELSE 0]

(***************************************************************************)
(* slave.rs: bisect_slice, map_frame_slave                                 *)
(***************************************************************************)
RECURSIVE BisectLoop(_, _, _, _)
\* threshold(item) is given as the set of the positions (from 0) where it holds
BisectLoop(n, holds, start, end) ==
    IF start < end
    THEN LET mid == (start + end) \div 2
         IN  IF mid \in holds THEN BisectLoop(n, holds, start, mid)
             ELSE BisectLoop(n, holds, mid + 1, end)
    ELSE end

bisect_slice(n, holds) == BisectLoop(n, holds, 0, n)

\* lower bound of exchange_virtual: the first entry that ends in the requested area
VirtualStart(mapping, header) ==
    bisect_slice(Len(mapping),
        {k \in 0..(Len(mapping) - 1) :
            mapping[k + 1].virtual_start + mapping[k + 1].size > header.address})

\* upper bound of exchange_virtual: bisect_slice over self.mapping[start ..], whose
\* result counts from `start`
VirtualStop(mapping, header) ==
    LET start == VirtualStart(mapping, header)
        rest == SubSeq(mapping, start + 1, Len(mapping))
    IN  bisect_slice(Len(rest),
            {k \in 0..(Len(rest) - 1) :
                rest[k + 1].virtual_start > header.address + header.size})

\* map_frame_slave: <<>> for None, else the ranges [start, end) in frame and slave
map_frame_slave(mapped, frame) ==
    LET address == frame.address
        istart == Max(mapped.virtual_start, address)
        iend == Min(mapped.virtual_start + mapped.size, address + frame.size)
    IN  IF iend <= istart THEN <<>>
        ELSE <<[fstart |-> istart - address, fend |-> iend - address,
                sstart |-> istart - mapped.virtual_start + mapped.slave_start,
                send |-> iend - mapped.virtual_start + mapped.slave_start]>>

(***************************************************************************)
(* slave.rs: on_write, exchange_slave, exchange_virtual                    *)
(***************************************************************************)
\* registers.rs: Mapping, 8 bytes big-endian
MappingFromBytes(b) ==
    [virtual_start |-> FromBE32(SubSeq(b, 1, 4)),
     slave_start |-> FromBE16(SubSeq(b, 5, 6)),
     size |-> FromBE16(SubSeq(b, 7, 8))]

MappingToBytes(m) == BE32(m.virtual_start) \o BE16(m.slave_start) \o BE16(m.size)

\* registers.rs: MappingTable, a size byte and 128 entries; `entries` are the first ones
MappingTableToBytes(size, entries) ==
    [j \in 1..(1 + 8 * Len(entries)) |->
        IF j = 1 THEN size
        ELSE MappingToBytes(entries[(j - 2) \div 8 + 1])[((j - 2) % 8) + 1]]

RECURSIVE InsertByVirtualStart(_, _)
InsertByVirtualStart(sorted, m) ==
    IF sorted = <<>> THEN <<m>>
    ELSE IF sorted[Len(sorted)].virtual_start <= m.virtual_start THEN Append(sorted, m)
    ELSE Append(InsertByVirtualStart(SubSeq(sorted, 1, Len(sorted) - 1), m), sorted[Len(sorted)])

RECURSIVE SortByVirtualStart(_)
SortByVirtualStart(entries) ==
    IF entries = <<>> THEN <<>>
    ELSE InsertByVirtualStart(SortByVirtualStart(SubSeq(entries, 1, Len(entries) - 1)),
                              entries[Len(entries)])

\* the validation loop of on_write: some entry lies outside the buffer or the address space
MappingInvalid(mapping) ==
    \E k \in 1..Len(mapping) :
        \/ (mapping[k].slave_start + mapping[k].size) % U16 > MEM
        \/ mapping[k].slave_start > MEM
        \* u32::MAX - virtual_start < size, without writing 2^32
        \/ (mapping[k].virtual_start + mapping[k].size) \div U16 >= U16

\* an on_write that does not follow the ADDRESS register
OnWriteKeepAddress(s, address) == s

\* SlaveControl::on_write on the slave record s, whose buffer holds the written bytes
OnWrite(s, address) ==
    IF address = ADDRESS
    THEN [s EXCEPT !.address = FromBE16(ReadBytes(s.buffer, ADDRESS, 2))]
    ELSE IF address = MAPPING
    THEN LET size == BufAt(s.buffer, MAPPING)
         IN  IF size > TABLE_CAPACITY
             THEN \* self.mapping.clear(), then the slice index panics
                  [s EXCEPT !.pc = "panicked", !.mapping = <<>>]
             ELSE LET table == [k \in 1..size |->
                                  MappingFromBytes(ReadBytes(s.buffer, MAPPING + 1 + 8 * (k - 1), 8))]
                      active == SortByVirtualStart(SelectSeq(table, LAMBDA m : m.size # 0))
                  IN  [s EXCEPT !.mapping = active,
                                !.buffer = IF MappingInvalid(active)
                                           THEN SetError(s.buffer, ErrInvalidMapping)
                                           ELSE s.buffer]
    ELSE s

\* exchange_slave writing the buffer before it reads it
ExchangeSlaveWriteFirst(s) ==
    LET header == s.recv_header
        size == header.size
        register == AddrRegister(header.address)
    IN  IF register + size > MEM
        THEN [s EXCEPT !.err = ErrInvalidRegister]
        ELSE LET w == IF AccWrite(header.access)
                      THEN OnWrite([s EXCEPT !.buffer = WriteBytes(s.buffer, register, s.receive)], register)
                      ELSE s
                 bytes == ReadBytes(w.buffer, register, size)
             IN  IF AccRead(header.access)
                 THEN [w EXCEPT !.send = ScratchWrite(w.send, bytes),
                                !.send_header.checksum = checksum(bytes)]
                 ELSE [w EXCEPT !.send = ScratchWrite(w.send, s.receive)]

\* exchange_slave without the check of the range against the buffer
ExchangeSlaveUnchecked(s) ==
    LET header == s.recv_header
        size == header.size
        register == AddrRegister(header.address)
        bytes == ReadBytes(s.buffer, register, size)
        r == IF AccRead(header.access)
             THEN [s EXCEPT !.send = ScratchWrite(s.send, bytes),
                            !.send_header.checksum = checksum(bytes)]
             ELSE [s EXCEPT !.send = ScratchWrite(s.send, s.receive)]
    IN  IF AccWrite(header.access)
        THEN OnWrite([r EXCEPT !.buffer = WriteBytes(r.buffer, register, s.receive)], register)
        ELSE r

\* exchange_slave leaving all but the first byte of a write to a later acquisition
ExchangeSlaveFirstByte(s) ==
    LET header == s.recv_header
        size == header.size
        register == AddrRegister(header.address)
    IN  IF register + size > MEM
        THEN [s EXCEPT !.err = ErrInvalidRegister]
        ELSE LET bytes == ReadBytes(s.buffer, register, size)
                 r == IF AccRead(header.access)
                      THEN [s EXCEPT !.send = ScratchWrite(s.send, bytes),
                                     !.send_header.checksum = checksum(bytes)]
                      ELSE [s EXCEPT !.send = ScratchWrite(s.send, s.receive)]
             IN  IF AccWrite(header.access)
                 THEN OnWrite([r EXCEPT !.buffer = WriteBytes(r.buffer, register, SubSeq(s.receive, 1, 1))], register)
                 ELSE r

\* exchange_slave, once the buffer guard is held; s.err carries the refusal
ExchangeSlave(s) ==
    LET header == s.recv_header
        size == header.size
        register == AddrRegister(header.address)
    IN  IF register + size > MEM
        THEN [s EXCEPT !.err = ErrInvalidRegister]
        ELSE LET bytes == ReadBytes(s.buffer, register, size)
                 r == IF AccRead(header.access)
                      THEN [s EXCEPT !.send = ScratchWrite(s.send, bytes),
                                     !.send_header.checksum = checksum(bytes)]
                      ELSE [s EXCEPT !.send = ScratchWrite(s.send, s.receive)]
             IN  IF AccWrite(header.access)
                 THEN OnWrite([r EXCEPT !.buffer = WriteBytes(r.buffer, register, s.receive)], register)
                 ELSE r

\* the entries self.mapping[start .. stop] of exchange_virtual
VirtualEntries(mapping, header) ==
    SubSeq(mapping, VirtualStart(mapping, header) + 1, VirtualStop(mapping, header))

\* stop > start: the slave is concerned by the frame and locks its buffer
VirtualConcerned(mapping, header) ==
    VirtualStop(mapping, header) > VirtualStart(mapping, header)

RECURSIVE VirtualRead(_, _, _, _, _)
VirtualRead(send, buffer, entries, header, k) ==
    IF k > Len(entries) THEN send
    ELSE LET m == map_frame_slave(entries[k], header)
         IN  IF m = <<>> THEN VirtualRead(send, buffer, entries, header, k + 1)
             ELSE VirtualRead(
                    ScratchWriteAt(send, m[1].fstart,
                        ReadBytes(buffer, m[1].sstart, m[1].send - m[1].sstart)),
                    buffer, entries, header, k + 1)

RECURSIVE VirtualWrite(_, _, _, _, _)
VirtualWrite(buffer, receive, entries, header, k) ==
    IF k > Len(entries) THEN buffer
    ELSE LET m == map_frame_slave(entries[k], header)
         IN  IF m = <<>> THEN VirtualWrite(buffer, receive, entries, header, k + 1)
             ELSE VirtualWrite(
                    WriteBytes(buffer, m[1].sstart, SubSeq(receive, m[1].fstart + 1, m[1].fend)),
                    receive, entries, header, k + 1)

\* a mapped range of the entries lies outside the buffer: the slice index panics
VirtualOutOfBuffer(entries, header) ==
    \E k \in 1..Len(entries) :
        LET m == map_frame_slave(entries[k], header)
        IN  m # <<>> /\ m[1].send > MEM

\* exchange_virtual, once the buffer guard is held (send already holds the payload)
ExchangeVirtual(s) ==
    LET header == s.recv_header
        size == header.size
        entries == VirtualEntries(s.mapping, header)
    IN  IF (AccRead(header.access) \/ AccWrite(header.access)) /\ VirtualOutOfBuffer(entries, header)
        THEN [s EXCEPT !.pc = "panicked"]
        ELSE LET r == IF AccRead(header.access)
                      THEN LET out == VirtualRead(s.send, s.buffer, entries, header, 1)
                           IN  [s EXCEPT !.send = out,
                                         !.send_header.checksum = checksum(ScratchPrefix(out, size))]
                      ELSE s
             IN  IF AccWrite(header.access)
                 THEN [r EXCEPT !.buffer = VirtualWrite(r.buffer, s.receive, entries, header, 1)]
                 ELSE r

(***************************************************************************)
(* slave.rs: Slave::run, receive_command, process_command                  *)
(***************************************************************************)
Positions == 1..chain

\* the frame the slave at position i is about to receive
Incoming(i) == flight # <<>> /\ flight[1].at = i

\* receive_command, "transmit anyway": header, its checksum, send[.. size]
Transmit(i, s) ==
    /\ flight' = <<[at |-> i + 1,
                    bytes |-> FrameBytes(s.send_header, ScratchPrefix(s.send, s.recv_header.size))]>>
    /\ slave' = [slave EXCEPT ![i] = [s EXCEPT !.pc = "idle", !.err = ErrNone]]

\* Slave::run: take the control block with try_lock, or return
SlaveRun(i) ==
    /\ ~slave[i].running
    /\ slave[i].pc = "idle"
    /\ LET t == TryNew(slave[i].ctl_locked)
       IN  slave' = [slave EXCEPT ![i].ctl_locked = t.locked, ![i].running = t.got]
    /\ UNCHANGED <<chain, flight, sent, executedBy, mlock, pending, task, runs, wire, rx, hung, cu>>

\* DirectMatch with the rank of a topological command ignored
DirectMatchAnyRank(s, header) ==
    \/ AccFixed(header.access) /\ AddrSlave(header.address) = s.address
    \/ AccTopological(header.access)

\* DirectMatch with a fixed command compared to the ADDRESS register's offset
DirectMatchRegisterOffset(s, header) ==
    \/ AccFixed(header.access) /\ AddrSlave(header.address) = ADDRESS
    \/ AccTopological(header.access) /\ AddrSlave(header.address) = 0

\* the slave matches a directly addressed command
DirectMatch(s, header) ==
    \/ AccFixed(header.access) /\ AddrSlave(header.address) = s.address
    \/ AccTopological(header.access) /\ AddrSlave(header.address) = 0

\* receive_command and process_command up to the first wait for the buffer mutex
SlaveReceive(i) ==
    /\ Incoming(i)
    /\ slave[i].running
    /\ slave[i].pc = "idle"
    /\ LET bytes == flight[1].bytes
           \* catch_header: the first HEADER+1 bytes hold a header and its checksum
           header == CommandFromBytes(SubSeq(bytes, 1, HEADER))
           size == header.size
           data == SubSeq(bytes, HEADER + 2, HEADER + 1 + size)
           s0 == [slave[i] EXCEPT !.receive = data, !.recv_header = header, !.send_header = header]
           \* logic for topological addresses
           s1 == IF AccTopological(header.access)
                 THEN [s0 EXCEPT !.send_header.address =
                          AddrSetSlave(header.address, (AddrSlave(header.address) + U16 - 1) % U16)]
                 ELSE s0
           corrupted == AccWrite(header.access) /\ header.checksum # checksum(data)
           marked == [s1 EXCEPT !.send_header.executed = (s1.send_header.executed + 1) % 256]
       IN  /\ checksum(SubSeq(bytes, 1, HEADER)) = bytes[HEADER + 1]
           /\ IF size > MAX_COMMAND
              THEN \* return Ok(()): nothing is transmitted
                   /\ flight' = <<>>
                   /\ UNCHANGED <<slave, executedBy>>
              ELSE IF AccFixed(header.access) /\ AccTopological(header.access)
              THEN /\ slave' = [slave EXCEPT ![i] = [s0 EXCEPT !.pc = "error", !.err = ErrInvalidCommand]]
                   /\ flight' = <<>>
                   /\ UNCHANGED executedBy
              ELSE IF DirectMatch(slave[i], header)
              THEN /\ slave' = [slave EXCEPT ![i] =
                          IF corrupted THEN [s1 EXCEPT !.pc = "loss"] ELSE [marked EXCEPT !.pc = "exchange"]]
                   /\ executedBy' = IF corrupted THEN executedBy ELSE executedBy \cup {i}
                   /\ flight' = <<>>
              ELSE IF ~AccFixed(header.access) /\ ~AccTopological(header.access)
              THEN IF corrupted
                   THEN /\ slave' = [slave EXCEPT ![i] = [s1 EXCEPT !.pc = "loss"]]
                        /\ flight' = <<>>
                        /\ UNCHANGED executedBy
                   ELSE LET copied == [marked EXCEPT !.send = ScratchWrite(marked.send, data)]
                        IN  /\ executedBy' = executedBy \cup {i}
                            /\ IF VirtualConcerned(slave[i].mapping, header)
                               THEN /\ slave' = [slave EXCEPT ![i] = [copied EXCEPT !.pc = "virtual"]]
                                    /\ flight' = <<>>
                               ELSE Transmit(i, copied)
              ELSE /\ Transmit(i, [s1 EXCEPT !.send = ScratchWrite(s1.send, data)])
                   /\ UNCHANGED executedBy
    /\ UNCHANGED <<chain, sent, mlock, pending, task, runs, wire, rx, hung, cu>>

\* what the slave does once it holds the buffer guard, by the place it waited at
Locked(s) ==
    CASE s.pc = "loss" -> [s EXCEPT !.buffer = AddLoss(s.buffer)]
      [] s.pc = "exchange" -> ExchangeSlave(s)
      [] s.pc = "virtual" -> ExchangeVirtual(s)
      [] s.pc = "error" -> [s EXCEPT !.buffer = SetError(s.buffer, s.err),
                                     !.send_header.access = SetBit(s.send_header.access, 7, TRUE),
                                     !.err = ErrNone]

\* one poll of slave.buffer.lock().await, and the rest of the command when it is won
SlaveLock(i) ==
    /\ slave[i].pc \in {"loss", "exchange", "virtual", "error"}
    /\ LET t == TryNew(slave[i].buf_locked)
           r == [Locked(slave[i]) EXCEPT !.buf_locked = GuardDrop]
       IN  IF ~t.got
           THEN /\ slave' = [slave EXCEPT ![i].buf_locked = t.locked]
                /\ UNCHANGED flight
           ELSE IF r.pc = "panicked"
           THEN /\ slave' = [slave EXCEPT ![i] = [r EXCEPT !.running = FALSE]]
                /\ UNCHANGED flight
           ELSE IF r.err # ErrNone
           THEN \* process_command returned Err: set_error needs the buffer again
                /\ slave' = [slave EXCEPT ![i] = [r EXCEPT !.pc = "error"]]
                /\ UNCHANGED flight
           ELSE Transmit(i, r)
    /\ UNCHANGED <<chain, sent, executedBy, mlock, pending, task, runs, wire, rx, hung, cu>>

(***************************************************************************)
(* The master end of the chain: Topic::new and Topic::send build the frame *)
(***************************************************************************)
\* master/mod.rs: usize_to_message
\* a size check that accepts every length
usize_to_message_any(size) == TRUE

usize_to_message_ok(size) == size < MAX_COMMAND

\* the header Topic::new and Topic::send give a command
TopicCommand(token, c) ==
    [token |-> token,
     access |-> MkAccess(c.read, c.write, c.kind = "fixed", c.kind = "topological"),
     executed |-> 0,
     address |-> IF c.kind = "virtual" THEN c.address ELSE AddressNew(c.host, c.address),
     size |-> Len(c.data),
     checksum |-> checksum(c.data)]

\* the master puts one command on the chain
ChainSend(c) ==
    /\ flight = <<>>
    /\ \A i \in Positions : slave[i].pc = "idle"
    /\ usize_to_message_ok(Len(c.data))
    /\ sent' = [header |-> TopicCommand(c.token, c), data |-> c.data]
    /\ flight' = <<[at |-> 1, bytes |-> FrameBytes(TopicCommand(c.token, c), c.data)]>>
    /\ executedBy' = {}
    /\ UNCHANGED <<chain, slave, mlock, pending, task, runs, wire, rx, hung, cu>>

\* the frame of the last slave reached the master, which reads it off the bus
ChainCollect ==
    /\ Incoming(chain + 1)
    /\ flight' = <<>>
    /\ UNCHANGED <<chain, slave, sent, executedBy, mlock, pending, task, runs, wire, rx, hung, cu>>

(***************************************************************************)
(* SpecChain: a master and a chain of NSlaves slaves, one frame at a time  *)
(***************************************************************************)
MasterUnused ==
    /\ mlock = [receive |-> FALSE, transmit |-> FALSE, pending |-> FALSE]
    /\ pending = <<>>
    /\ task = <<>>
    /\ runs = <<>>
    /\ wire = <<>>
    /\ rx = <<>>
    /\ hung = FALSE
    /\ cu = <<>>

ChainIdle ==
    /\ flight = <<>>
    /\ sent = [header |-> CommandDefault, data |-> <<>>]
    /\ executedBy = {}

ChainCommands ==
    {[kind |-> "topological", host |-> k, address |-> ADDRESS, read |-> FALSE, write |-> TRUE,
      data |-> BE16(a), token |-> 4660] : k \in 0..(chain - 1), a \in {1, 2}}
    \cup
    {[kind |-> "fixed", host |-> id, address |-> VERSION, read |-> TRUE, write |-> FALSE,
      data |-> <<0>>, token |-> 4661] : id \in 0..2}
    \cup
    {[kind |-> "virtual", host |-> 0, address |-> 0, read |-> TRUE, write |-> FALSE,
      data |-> <<0>>, token |-> 4663]}

InitChain ==
    /\ chain = NSlaves
    /\ slave = [i \in 1..NSlaves |-> SlaveNew(TestDevice)]
    /\ ChainIdle
    /\ MasterUnused

NextChain ==
    \/ \E i \in Positions : SlaveRun(i)
    \/ \E i \in Positions : SlaveReceive(i)
    \/ \E i \in Positions : SlaveLock(i)
    \/ \E c \in ChainCommands : ChainSend(c)
    \/ ChainCollect

SpecChain == InitChain /\ [][NextChain]_vars

(***************************************************************************)
(* SpecExchange: one slave, directly addressed reads, writes and exchanges *)
(***************************************************************************)
ExchangeCommands ==
    {[kind |-> "topological", host |-> 0, address |-> a, read |-> r, write |-> w,
      data |-> d, token |-> 4670] :
        a \in {USER, MEM - 1}, r \in BOOLEAN, w \in BOOLEAN, d \in {<<7>>, <<8, 9>>}}

InitExchange ==
    /\ chain = 1
    /\ slave = [i \in {1} |-> SlaveNew(TestDevice)]
    /\ ChainIdle
    /\ MasterUnused

NextExchange ==
    \/ SlaveRun(1)
    \/ SlaveReceive(1)
    \/ SlaveLock(1)
    \/ \E c \in ExchangeCommands : ChainSend(c)
    \/ ChainCollect

SpecExchange == InitExchange /\ [][NextExchange]_vars

(***************************************************************************)
(* SpecVirtual: one slave, its user registers, its mapping table and       *)
(* reads of the virtual memory                                             *)
(***************************************************************************)
\* entries over the user registers of the test slave (COUNTER, OFFSET, and the next)
SampleEntries ==
    <<[virtual_start |-> 0, slave_start |-> USER, size |-> 2],
      [virtual_start |-> 2, slave_start |-> USER + 4, size |-> 2],
      [virtual_start |-> 4, slave_start |-> USER + 2, size |-> 2]>>

\* the tables made of some of the sample entries, in ascending virtual order
SampleTables ==
    {SelectSeq(SampleEntries, LAMBDA m : m.virtual_start \in keep) : keep \in SUBSET {0, 2, 4}}

UserData == <<17, 18, 19, 20, 21, 22>>

\* the user task of the slave fills its registers under the buffer guard
\* (slave/src/main.rs: slave.lock().await, then buffer.set)
UserSet(i) ==
    /\ ReadBytes(slave[i].buffer, USER, Len(UserData)) # UserData
    /\ LET t == TryNew(slave[i].buf_locked)
       IN  slave' = [slave EXCEPT
                ![i].buf_locked = IF t.got THEN GuardDrop ELSE t.locked,
                ![i].buffer = IF t.got THEN WriteBytes(@, USER, UserData) ELSE @]
    /\ UNCHANGED <<chain, flight, sent, executedBy, mlock, pending, task, runs, wire, rx, hung, cu>>

VirtualCommands ==
    {[kind |-> "topological", host |-> 0, address |-> MAPPING, read |-> FALSE, write |-> TRUE,
      data |-> MappingTableToBytes(Len(t), t), token |-> 4681] : t \in SampleTables}
    \cup
    {[kind |-> "virtual", host |-> 0, address |-> a, read |-> TRUE, write |-> FALSE,
      data |-> [k \in 1..n |-> 160 + k], token |-> 4682] : a \in 0..5, n \in 2..3}

InitVirtual ==
    /\ chain = 1
    /\ slave = [i \in {1} |-> SlaveNew(TestDevice)]
    /\ ChainIdle
    /\ MasterUnused

NextVirtual ==
    \/ UserSet(1)
    \/ SlaveRun(1)
    \/ SlaveReceive(1)
    \/ SlaveLock(1)
    \/ \E c \in VirtualCommands : ChainSend(c)
    \/ ChainCollect

SpecVirtual == InitVirtual /\ [][NextVirtual]_vars

(***************************************************************************)
(* Properties of the chain                                                 *)
(***************************************************************************)
\* the frame came back to the master
Returned == Incoming(chain + 1)
Response == CommandFromBytes(SubSeq(flight[1].bytes, 1, HEADER))
ResponseData == SubSeq(flight[1].bytes, HEADER + 2, Len(flight[1].bytes))
SentRank == AddrSlave(sent.header.address)
SentTopological == AccTopological(sent.header.access)
SentFixed == AccFixed(sent.header.access)
SentVirtual == ~SentTopological /\ ~SentFixed
AddressesDistinct ==
    \A i, j \in Positions : i # j => slave[i].address # slave[j].address

\* C1: a topological command of rank k < N that came back to the master was executed
\* by the slave at position k and by no other, and carries executed = 1
C1_TopologicalExactlyOne ==
    (Returned /\ SentTopological /\ SentRank < chain) =>
        /\ executedBy = {SentRank + 1}
        /\ Response.executed = 1

C1_Witness ==
    /\ Returned /\ SentTopological /\ SentRank = chain - 1
    /\ executedBy = {chain} /\ Response.executed = 1

\* C2: a fixed command of slave_id s that came back to the master was executed by the
\* slaves whose address is s and by no other; with pairwise distinct addresses at most
\* one slave executed it and the master sees executed <= 1
C2_FixedByAddress ==
    (Returned /\ SentFixed) =>
        /\ executedBy = {i \in Positions : slave[i].address = SentRank}
        /\ Response.executed = Cardinality(executedBy)
        /\ AddressesDistinct => Response.executed <= 1

C2_Witness ==
    /\ Returned /\ SentFixed /\ AddressesDistinct
    /\ SentRank # 0
    /\ executedBy = {chain} /\ Response.executed = 1

\* some entry of the mapping intersects the requested range [address, address + size)
MappingIntersects(mapping, address, size) ==
    \E k \in 1..Len(mapping) :
        /\ mapping[k].virtual_start < address + size
        /\ mapping[k].virtual_start + mapping[k].size > address

\* C3: the executed count of a virtual command that came back to the master is the
\* number of slaves whose active mapping intersects the requested range
C3_VirtualExecutedCount ==
    (Returned /\ SentVirtual) =>
        Response.executed =
            Cardinality({i \in Positions :
                MappingIntersects(slave[i].mapping, sent.header.address, sent.header.size)})

\* C4: a slave executing a direct command with read and write on a range inside MEM
\* forwards the bytes the range held before, stores the received payload in the range,
\* and forwards the checksum of the forwarded payload
C4_ReadBeforeWrite ==
    [][\A i \in Positions :
        LET header == slave[i].recv_header
            register == AddrRegister(header.address)
        IN  (/\ slave[i].pc = "exchange" /\ slave'[i].pc = "idle"
             /\ AccRead(header.access) /\ AccWrite(header.access)
             /\ register + header.size <= MEM)
            => /\ ResponseData' = ReadBytes(slave[i].buffer, register, header.size)
               /\ ReadBytes(slave'[i].buffer, register, header.size) = slave[i].receive
               /\ Response'.checksum = checksum(ResponseData')]_vars

C4_Witness ==
    /\ Returned /\ executedBy = {1}
    /\ AccRead(sent.header.access) /\ AccWrite(sent.header.access)
    /\ AddrRegister(sent.header.address) = USER
    /\ sent.data = <<8, 9>>
    /\ ResponseData = <<7, 0>>
    /\ ReadBytes(slave[1].buffer, USER, 2) = <<8, 9>>
    /\ Response.executed = 1 /\ ~AccError(Response.access)

\* C5: each byte of the response a slave forwards to a virtual read is the slave buffer
\* byte its virtual address is mapped to by an entry of the (sorted, valid,
\* non-overlapping) mapping, and the received payload byte where no entry maps it
C5_VirtualReadBytes ==
    [][(~Returned /\ Returned' /\ SentVirtual /\ AccRead(sent.header.access)) =>
        \A k \in 1..sent.header.size :
            LET v == sent.header.address + k - 1
                hit == {e \in 1..Len(slave[1].mapping) :
                            /\ slave[1].mapping[e].virtual_start <= v
                            /\ v < slave[1].mapping[e].virtual_start + slave[1].mapping[e].size}
            IN  ResponseData'[k] =
                    IF hit = {} THEN sent.data[k]
                    ELSE LET m == slave[1].mapping[CHOOSE e \in hit : TRUE]
                         IN  BufAt(slave[1].buffer, m.slave_start + (v - m.virtual_start))]_vars

(***************************************************************************)
(* master/networking.rs: the pending table, Topic, Master::run             *)
(***************************************************************************)
Tokens == 0..(U16 - 1)

\* the tokens Topic::new tries: (0 ..= len).map(|i| i.wrapping_add(first)), from 0
TokenCandidate(first, i) == (first + i) % U16

\* a token choice that ignores the keys of the table
ChooseTokenUnfiltered(table, first) == first

\* Topic::new: the first candidate that is no key of the pending table; -1 when none
ChooseToken(table, first) ==
    LET len == Cardinality(DOMAIN table)
        free == {i \in 0..len : TokenCandidate(first, i) \notin DOMAIN table}
    IN  IF free = {} THEN -1
        ELSE TokenCandidate(first, CHOOSE i \in free : \A j \in free : i <= j)

\* pending.insert(token, Pending {command, buffer, waker: None, result: None})
PendingInsert(table, token, command, buffer) ==
    [k \in DOMAIN table \cup {token} |->
        IF k = token
        THEN [command |-> command, buffer |-> buffer, waker |-> FALSE, result |-> <<>>]
        ELSE table[k]]

\* a drop that leaves the record in the table
PendingRemoveNothing(table, token) == table

\* pending.remove(&self.token)
PendingRemove(table, token) == [k \in DOMAIN table \ {token} |-> table[k]]

\* the loop of Drop for Topic: TRUE when some try_lock gave the guard, FALSE when the
\* loop spins on a flag it cannot change
RECURSIVE DropSpin(_)
DropSpin(locked) ==
    LET t == TryNew(locked)
    IN  IF t.got THEN TRUE
        ELSE IF t.locked = locked THEN FALSE
        ELSE DropSpin(t.locked)

\* a dispatch that copies the payload into the buffer of the record whatever the frame
DispatchCopyAlways(table, header, data) ==
    IF header.token \notin DOMAIN table THEN table
    ELSE [table EXCEPT ![header.token].buffer = data,
                       ![header.token].result = <<[kind |-> "master", value |-> "reponse header mismatch"]>>]

\* a dispatch that looks at the data checksum before the error flag
DispatchChecksumFirst(table, header, data) ==
    IF header.token \notin DOMAIN table THEN table
    ELSE LET p == table[header.token]
             consistent ==
                /\ p.command.token = header.token
                /\ AccFixed(p.command.access) = AccFixed(header.access)
                /\ AccTopological(p.command.access) = AccTopological(header.access)
                /\ AccRead(p.command.access) = AccRead(header.access)
                /\ \/ p.command.address = header.address
                   \/ /\ AccTopological(header.access)
                      /\ AddrRegister(p.command.address) = AddrRegister(header.address)
                /\ p.command.size = header.size
             q == IF ~consistent THEN [p EXCEPT !.result = <<[kind |-> "master", value |-> "reponse header mismatch"]>>]
                  ELSE IF header.checksum # checksum(data) THEN [p EXCEPT !.result = <<[kind |-> "master", value |-> "data checksum mismatch"]>>]
                  ELSE IF AccError(header.access) THEN [p EXCEPT !.result = <<[kind |-> "slave", value |-> "Unknown"]>>]
                  ELSE [p EXCEPT !.buffer = data, !.result = <<[kind |-> "ok", value |-> header.executed]>>]
         IN  [table EXCEPT ![header.token] = [q EXCEPT !.waker = FALSE]]

\* Master::run, lines 100-126: the pending table after a frame was received
Dispatch(table, header, data) ==
    IF header.token \notin DOMAIN table THEN table
    ELSE LET p == table[header.token]
             consistent ==
                /\ p.command.token = header.token
                /\ AccFixed(p.command.access) = AccFixed(header.access)
                /\ AccTopological(p.command.access) = AccTopological(header.access)
                /\ AccRead(p.command.access) = AccRead(header.access)
                /\ \/ p.command.address = header.address
                   \/ /\ AccTopological(header.access)
                      /\ AddrRegister(p.command.address) = AddrRegister(header.address)
                /\ p.command.size = header.size
             q == IF ~consistent THEN [p EXCEPT !.result = <<[kind |-> "master", value |-> "reponse header mismatch"]>>]
                  ELSE IF AccError(header.access) THEN [p EXCEPT !.result = <<[kind |-> "slave", value |-> "Unknown"]>>]
                  ELSE IF header.checksum # checksum(data) THEN [p EXCEPT !.result = <<[kind |-> "master", value |-> "data checksum mismatch"]>>]
                  ELSE [p EXCEPT !.buffer = data, !.result = <<[kind |-> "ok", value |-> header.executed]>>]
         IN  [table EXCEPT ![header.token] = [q EXCEPT !.waker = FALSE]]

(***************************************************************************)
(* The tasks of the master: Slave::command = Topic::new, send, receive,    *)
(* then the topic is dropped                                               *)
(***************************************************************************)
Tasks == 1..MaxTasks
FirstValues == {0, U16 - 1}

\* what every task asks: read VERSION of the first slave
TaskRequest ==
    [kind |-> "topological", host |-> 0, address |-> VERSION, read |-> TRUE, write |-> FALSE,
     data |-> <<0>>]

TaskIdle == [pc |-> "idle", token |-> -1, header |-> CommandDefault, holds |-> {}, outcome |-> <<>>]

\* the task owns a topic
Live(t) == task[t].pc \in {"send_lock", "send_tx", "write_header", "write_checksum", "write_data", "receive"}

\* the writes on the bus of the sends in progress, without those of task t
WireWithout(t) == SelectSeq(wire, LAMBDA c : c.task # t)

\* the guards of a dropped future are released
Release(locks, held) == [m \in DOMAIN locks |-> IF m \in held THEN GuardDrop ELSE locks[m]]

\* Drop for Topic when the flags of the master are `locks`; the task ends at `pc`
DropTopicWith(t, locks, pc, outcome) ==
    IF DropSpin(locks.pending)
    THEN /\ pending' = PendingRemove(pending, task[t].token)
         /\ mlock' = [locks EXCEPT !.pending = GuardDrop]
         /\ task' = [task EXCEPT ![t] = [TaskIdle EXCEPT !.pc = pc, !.outcome = outcome]]
         /\ UNCHANGED hung
    ELSE /\ hung' = TRUE
         /\ mlock' = locks
         /\ task' = [task EXCEPT ![t].pc = "dropping", ![t].holds = {}]
         /\ UNCHANGED pending

\* Drop for Topic, after the guards `held` of the future were released; the task ends at `pc`
DropTopic(t, held, pc, outcome) == DropTopicWith(t, Release(mlock, held), pc, outcome)

\* Topic::new: one poll of master.pending.lock().await, then the token is reserved
TaskNew(t, first) ==
    /\ ~hung
    /\ task[t].pc \in {"idle", "new"}
    /\ LET l == TryNew(mlock.pending)
           token == ChooseToken(pending, first)
       IN  IF ~l.got
           THEN /\ mlock' = [mlock EXCEPT !.pending = l.locked]
                /\ task' = [task EXCEPT ![t].pc = "new"]
                /\ UNCHANGED pending
           ELSE /\ token \in Tokens
                /\ usize_to_message_ok(Len(TaskRequest.data))
                /\ pending' = PendingInsert(pending, token,
                                [TopicCommand(token, TaskRequest) EXCEPT !.access = MkAccess(FALSE, FALSE, FALSE, TRUE), !.checksum = 0],
                                TaskRequest.data)
                /\ mlock' = [mlock EXCEPT !.pending = GuardDrop]
                /\ task' = [task EXCEPT ![t].pc = "send_lock", ![t].token = token]
    /\ UNCHANGED <<chain, slave, flight, sent, executedBy, runs, wire, rx, hung, cu>>

\* Topic::send: one poll of master.pending.lock().await, then the command is updated
TaskSendLock(t) ==
    /\ ~hung
    /\ task[t].pc = "send_lock"
    /\ LET l == TryNew(mlock.pending)
       IN  IF ~l.got
           THEN /\ mlock' = [mlock EXCEPT !.pending = l.locked]
                /\ UNCHANGED <<task, pending>>
           ELSE /\ mlock' = [mlock EXCEPT !.pending = l.locked]
                /\ pending' = [pending EXCEPT ![task[t].token].command =
                                  [@ EXCEPT !.checksum = checksum(pending[task[t].token].buffer),
                                            !.access = SetBit(SetBit(@, 0, TaskRequest.read), 1, TaskRequest.write)]]
                /\ task' = [task EXCEPT ![t].pc = "send_tx", ![t].holds = {"pending"}]
    /\ UNCHANGED <<chain, slave, flight, sent, executedBy, runs, wire, rx, hung, cu>>

\* Topic::send: one poll of master.transmit.lock().await, then the header is encoded
TaskSendTx(t) ==
    /\ ~hung
    /\ task[t].pc = "send_tx"
    /\ LET l == TryNew(mlock.transmit)
       IN  /\ mlock' = [mlock EXCEPT !.transmit = l.locked]
           /\ IF ~l.got THEN UNCHANGED task
              ELSE task' = [task EXCEPT ![t].pc = "write_header", ![t].holds = {"pending", "transmit"},
                                        ![t].header = pending[task[t].token].command]
    /\ UNCHANGED <<chain, slave, flight, sent, executedBy, pending, runs, wire, rx, hung, cu>>

\* what a chain of one slave answers to the frame of TaskRequest (see SpecChain)
LoopBack(header) ==
    [header |-> [header EXCEPT !.executed = 1, !.checksum = checksum(<<1>>),
                               !.address = AddrSetSlave(@, (AddrSlave(@) + U16 - 1) % U16)],
     data |-> <<1>>]

\* the last three writes are the header, header checksum and payload of one send
WholeFrame(w) ==
    LET n == Len(w)
    IN  /\ n >= 3
        /\ w[n-2].part = "header" /\ w[n-1].part = "checksum" /\ w[n].part = "data"
        /\ w[n-2].task = w[n-1].task /\ w[n-1].task = w[n].task

\* Topic::send: the three bus.write_all of one frame, one at a time
TaskWrite(t) ==
    /\ ~hung
    /\ task[t].pc \in {"write_header", "write_checksum", "write_data"}
    /\ LET part == CASE task[t].pc = "write_header" -> "header"
                     [] task[t].pc = "write_checksum" -> "checksum"
                     [] task[t].pc = "write_data" -> "data"
           w == Append(wire, [task |-> t, part |-> part])
       IN  IF part # "data"
           THEN /\ wire' = w
                /\ task' = [task EXCEPT ![t].pc = IF part = "header" THEN "write_checksum" ELSE "write_data"]
                /\ UNCHANGED <<mlock, rx>>
           ELSE \* the frame is written: both guards are dropped, send returns Ok
                /\ wire' = SelectSeq(w, LAMBDA c : c.task # t)
                /\ rx' = IF WholeFrame(w) THEN Append(rx, LoopBack(task[t].header)) ELSE rx
                /\ mlock' = Release(mlock, task[t].holds)
                /\ task' = [task EXCEPT ![t].pc = "receive", ![t].holds = {}]
    /\ UNCHANGED <<chain, slave, flight, sent, executedBy, pending, runs, hung, cu>>

\* Topic::send: a bus write fails, send returns the error and the topic is dropped
TaskWriteFail(t) ==
    /\ ~hung
    /\ task[t].pc \in {"write_header", "write_checksum", "write_data"}
    /\ DropTopic(t, task[t].holds, "failed", <<[kind |-> "bus", value |-> "io"]>>)
    /\ wire' = WireWithout(t)
    /\ UNCHANGED <<chain, slave, flight, sent, executedBy, runs, rx, cu>>

\* Topic::receive: one poll of the poll_fn
TaskReceive(t) ==
    /\ ~hung
    /\ task[t].pc = "receive"
    /\ LET l == TryNew(mlock.pending)
           p == pending[task[t].token]
       IN  IF ~l.got
           THEN /\ mlock' = [mlock EXCEPT !.pending = l.locked]
                /\ UNCHANGED <<task, pending, hung>>
           ELSE IF p.result # <<>>
           THEN \* Poll::Ready(result): the guard is dropped, then the topic
                DropTopic(t, {"pending"}, "done", p.result)
           ELSE /\ pending' = [pending EXCEPT ![task[t].token].waker = TRUE]
                /\ mlock' = [mlock EXCEPT !.pending = GuardDrop]
                /\ UNCHANGED <<task, hung>>
    /\ UNCHANGED <<chain, slave, flight, sent, executedBy, runs, wire, rx, cu>>

Timeout == <<[kind |-> "timeout", value |-> "Timeout"]>>

\* the deadline of tokio::time::timeout passed: the timer wakes the task, the poll_fn of
\* receive is polled once more and gives its result if it is ready; otherwise receive
\* returns Error::Timeout; in both cases the topic is dropped
TaskTimeout(t) ==
    /\ ~hung
    /\ task[t].pc = "receive"
    /\ LET l == TryNew(mlock.pending)
           p == pending[task[t].token]
       IN  IF l.got /\ p.result # <<>>
           THEN DropTopic(t, {"pending"}, "done", p.result)
           ELSE DropTopicWith(t, [mlock EXCEPT !.pending = IF l.got THEN GuardDrop ELSE l.locked],
                              "timeout", Timeout)
    /\ UNCHANGED <<chain, slave, flight, sent, executedBy, runs, wire, rx, cu>>

\* the awaiting task is cancelled at one of its awaits: its future is dropped
TaskCancel(t) ==
    /\ ~hung
    /\ \/ /\ task[t].pc = "new"
          /\ task' = [task EXCEPT ![t].pc = "cancelled"]
          /\ UNCHANGED <<mlock, pending, hung>>
       \/ /\ Live(t)
          /\ DropTopic(t, task[t].holds, "cancelled", <<[kind |-> "cancelled", value |-> "topic"]>>)
    /\ wire' = WireWithout(t)
    /\ UNCHANGED <<chain, slave, flight, sent, executedBy, runs, rx, cu>>

(***************************************************************************)
(* Master::run                                                             *)
(***************************************************************************)
Reading(r) == runs[r].pc \in {"read", "lock"}

\* Master::run is invoked: self.receive.try_lock().expect("run function called twice")
RunCall ==
    /\ ~hung
    /\ Len(runs) < MaxRuns
    /\ LET l == TryNew(mlock.receive)
       IN  /\ mlock' = [mlock EXCEPT !.receive = l.locked]
           /\ runs' = Append(runs, [pc |-> IF l.got THEN "read" ELSE "panicked",
                                    frame |-> <<>>])
    /\ UNCHANGED <<chain, slave, flight, sent, executedBy, pending, task, wire, rx, hung, cu>>

\* run reads one frame off RX: header, header checksum, payload
RunRead(r) ==
    /\ ~hung
    /\ runs[r].pc = "read"
    /\ rx # <<>>
    /\ runs' = [runs EXCEPT ![r].pc = "lock", ![r].frame = <<Head(rx)>>]
    /\ rx' = Tail(rx)
    /\ UNCHANGED <<chain, slave, flight, sent, executedBy, mlock, pending, task, wire, hung, cu>>

\* run: one poll of self.pending.lock().await, then the frame is dispatched
RunLock(r) ==
    /\ ~hung
    /\ runs[r].pc = "lock"
    /\ LET l == TryNew(mlock.pending)
           f == runs[r].frame[1]
       IN  IF ~l.got
           THEN /\ mlock' = [mlock EXCEPT !.pending = l.locked]
                /\ UNCHANGED <<pending, runs>>
           ELSE /\ pending' = Dispatch(pending, f.header, f.data)
                /\ mlock' = [mlock EXCEPT !.pending = GuardDrop]
                /\ runs' = [runs EXCEPT ![r].pc = "read", ![r].frame = <<>>]
    /\ UNCHANGED <<chain, slave, flight, sent, executedBy, task, wire, rx, hung, cu>>

\* the chain returns a frame on RX
BusReturn(token) ==
    /\ Len(rx) < MaxFrames
    /\ rx' = Append(rx, LoopBack(TopicCommand(token, TaskRequest)))
    /\ UNCHANGED <<chain, slave, flight, sent, executedBy, mlock, pending, task, runs, wire, hung, cu>>

(***************************************************************************)
(* SpecRun: Master::run is invoked MaxRuns times on a fresh master         *)
(***************************************************************************)
ChainUnused ==
    /\ chain = 0
    /\ slave = <<>>
    /\ ChainIdle

InitRun ==
    /\ ChainUnused
    /\ mlock = [receive |-> FALSE, transmit |-> FALSE, pending |-> FALSE]
    /\ pending = <<>>
    /\ task = <<>>
    /\ runs = <<>>
    /\ wire = <<>>
    /\ rx = <<>>
    /\ hung = FALSE
    /\ cu = <<>>

NextRun ==
    \/ RunCall
    \/ \E r \in DOMAIN runs : RunRead(r)
    \/ \E r \in DOMAIN runs : RunLock(r)
    \/ \E token \in FirstValues : BusReturn(token)

SpecRun == InitRun /\ [][NextRun]_vars

(***************************************************************************)
(* SpecMaster: MaxTasks tasks, each issuing one command, on a master whose *)
(* run was invoked twice: the first invocation panicked, the second reads  *)
(***************************************************************************)
InitMaster ==
    /\ ChainUnused
    /\ mlock = [receive |-> TRUE, transmit |-> FALSE, pending |-> FALSE]
    /\ pending = <<>>
    /\ task = [t \in Tasks |-> TaskIdle]
    /\ runs = <<[pc |-> "panicked", frame |-> <<>>], [pc |-> "read", frame |-> <<>>]>>
    /\ wire = <<>>
    /\ rx = <<>>
    /\ hung = FALSE
    /\ cu = <<>>

NextMaster ==
    \/ \E t \in Tasks, first \in FirstValues : TaskNew(t, first)
    \/ \E t \in Tasks : TaskSendLock(t)
    \/ \E t \in Tasks : TaskSendTx(t)
    \/ \E t \in Tasks : TaskWrite(t)
    \/ \E t \in Tasks : TaskWriteFail(t)
    \/ \E t \in Tasks : TaskReceive(t)
    \/ \E t \in Tasks : TaskTimeout(t)
    \/ \E t \in Tasks : TaskCancel(t)
    \/ \E r \in DOMAIN runs : RunRead(r)
    \/ \E r \in DOMAIN runs : RunLock(r)

SpecMaster == InitMaster /\ [][NextMaster]_vars

(***************************************************************************)
(* SpecCatch: Master::run reads RX byte by byte: garbage, then the frame   *)
(* that answers the pending command                                        *)
(***************************************************************************)
\* bytes below 128, so that the address decoded from garbage stays below 2^31
GarbageBytes == {0, 127}
CatchTokens == {0, 4682}

RECURSIVE SeqsUpTo(_, _)
SeqsUpTo(S, n) ==
    IF n = 0 THEN {<<>>}
    ELSE LET shorter == SeqsUpTo(S, n - 1)
         IN  shorter \cup {Append(q, b) : q \in {x \in shorter : Len(x) = n - 1}, b \in S}

\* checksum(&receive[.. HEADER]) == receive[HEADER]
HeaderValid(window) == checksum(SubSeq(window, 1, HEADER)) = window[HEADER + 1]

\* a catch-up that overwrites the last byte without rotating
CatchStepNoRotate(window, byte) == Append(SubSeq(window, 1, HEADER), byte)

\* receive[.. HEADER+1].rotate_left(1), then one byte is read into receive[HEADER]
CatchStep(window, byte) == Append(Tail(window), byte)

\* the record of a topic after Topic::new and Topic::send of TaskRequest
SentRecord(token) ==
    [command |-> [TopicCommand(token, TaskRequest) EXCEPT !.checksum = checksum(TaskRequest.data)],
     buffer |-> TaskRequest.data, waker |-> TRUE, result |-> <<>>]

\* the frame that answers it
CatchFrame(token) == LoopBack(SentRecord(token).command)

\* no 12 bytes of the stream that start inside the garbage pass the header checksum
CleanGarbage(garbage, frame) ==
    \A i \in 1..Len(garbage) : ~HeaderValid(SubSeq(garbage \o frame, i, i + HEADER))

CatchAt(pc, input, window, header) ==
    [cu EXCEPT !.pc = pc, !.input = input, !.receive = window, !.header = header]

\* bus.read_exact(&mut receive[.. HEADER+1])
CatchHeader ==
    /\ cu.pc = "header"
    /\ Len(cu.input) >= HEADER + 1
    /\ cu' = CatchAt("catch", SubSeq(cu.input, HEADER + 2, Len(cu.input)),
                     SubSeq(cu.input, 1, HEADER + 1), cu.header)
    /\ UNCHANGED <<chain, slave, flight, sent, executedBy, mlock, pending, task, runs, wire, rx, hung>>

\* one turn of the catch-up loop, or its exit with the header decoded; the slice
\* receive[.. size] panics when the size is more than the buffer
CatchUp ==
    /\ cu.pc = "catch"
    /\ IF HeaderValid(cu.receive)
       THEN LET header == CommandFromBytes(SubSeq(cu.receive, 1, HEADER))
            IN  cu' = CatchAt(IF header.size > MAX_COMMAND THEN "panicked" ELSE "data",
                              cu.input, cu.receive, header)
       ELSE /\ cu.input # <<>>
            /\ cu' = CatchAt("catch", Tail(cu.input), CatchStep(cu.receive, Head(cu.input)), cu.header)
    /\ UNCHANGED <<chain, slave, flight, sent, executedBy, mlock, pending, task, runs, wire, rx, hung>>

\* bus.read_exact(data)
CatchData ==
    /\ cu.pc = "data"
    /\ Len(cu.input) >= cu.header.size
    /\ cu' = CatchAt("lock", SubSeq(cu.input, cu.header.size + 1, Len(cu.input)),
                     SubSeq(cu.input, 1, cu.header.size), cu.header)
    /\ UNCHANGED <<chain, slave, flight, sent, executedBy, mlock, pending, task, runs, wire, rx, hung>>

\* one poll of self.pending.lock().await, then the frame is dispatched
CatchLock ==
    /\ cu.pc = "lock"
    /\ LET l == TryNew(mlock.pending)
           table == Dispatch(pending, cu.header, cu.receive)
       IN  IF ~l.got
           THEN /\ mlock' = [mlock EXCEPT !.pending = l.locked]
                /\ UNCHANGED <<pending, cu>>
           ELSE /\ pending' = table
                /\ mlock' = [mlock EXCEPT !.pending = GuardDrop]
                /\ cu' = [cu EXCEPT !.pc = "header",
                                    !.completed = IF cu.header.token \in DOMAIN pending
                                                  THEN Append(@, table[cu.header.token].result[1])
                                                  ELSE @]
    /\ UNCHANGED <<chain, slave, flight, sent, executedBy, task, runs, wire, rx, hung>>

InitCatch ==
    /\ ChainUnused
    /\ mlock = [receive |-> TRUE, transmit |-> FALSE, pending |-> FALSE]
    /\ task = <<>>
    /\ runs = <<>>
    /\ wire = <<>>
    /\ rx = <<>>
    /\ hung = FALSE
    /\ \E token \in CatchTokens, garbage \in SeqsUpTo(GarbageBytes, MaxGarbage) :
          /\ pending = [k \in {token} |-> SentRecord(token)]
          /\ cu = [pc |-> "header", token |-> token, garbage |-> garbage,
                   clean |-> CleanGarbage(garbage, FrameBytes(CatchFrame(token).header, CatchFrame(token).data)),
                   input |-> garbage \o FrameBytes(CatchFrame(token).header, CatchFrame(token).data),
                   receive |-> <<>>, header |-> CommandDefault, completed |-> <<>>]

NextCatch ==
    \/ CatchHeader
    \/ CatchUp
    \/ CatchData
    \/ CatchLock

SpecCatch == InitCatch /\ [][NextCatch]_vars

(***************************************************************************)
(* Properties of the master                                                *)
(***************************************************************************)
\* the run coroutine waits for bytes that do not come, or has panicked
CatchBlocked ==
    \/ cu.pc = "header" /\ Len(cu.input) < HEADER + 1
    \/ cu.pc = "catch" /\ ~HeaderValid(cu.receive) /\ cu.input = <<>>
    \/ cu.pc = "data" /\ Len(cu.input) < cu.header.size
    \/ cu.pc = "panicked"

CatchDelivered ==
    /\ cu.completed = <<[kind |-> "ok", value |-> CatchFrame(cu.token).header.executed]>>
    /\ pending[cu.token].buffer = CatchFrame(cu.token).data

\* C6 as stated: whatever the garbage before the valid frame, run resynchronizes and
\* completes the pending record exactly once, with the payload and executed count
\* of the frame
C6_CatchUpAnyGarbage ==
    /\ Len(cu.completed) <= 1
    /\ \A k \in DOMAIN cu.completed : cu.completed[k].kind = "ok"
    /\ CatchBlocked => CatchDelivered /\ cu.pc # "panicked"

\* the garbage is clean: no 12 bytes that start inside it pass the header checksum
CatchClean == cu.clean

\* C6 amended: when no 12 bytes starting inside the garbage pass the header checksum,
\* run resynchronizes one byte at a time and completes the pending record exactly
\* once, with the payload and executed count of the frame
C6_CatchUpCleanGarbage == CatchClean => C6_CatchUpAnyGarbage

C6_Witness ==
    /\ Len(cu.garbage) >= 5
    /\ CatchClean
    /\ CatchBlocked
    /\ CatchDelivered

\* C7: when tasks call Topic::send concurrently, the writes of two different frames
\* are never interleaved on the bus: between two writes of one send in progress
\* there is no write of another send
C7_NoInterleaving ==
    \A i, j, k \in DOMAIN wire :
        (i < j /\ j < k /\ wire[i].task = wire[k].task) => wire[j].task = wire[i].task

\* the topics that exist
LiveTasks == {t \in Tasks : Live(t)}

\* the topic of the task was dropped
Dropped(t) == task[t].pc \in {"done", "timeout", "failed", "cancelled"} /\ task[t].outcome # <<>>

\* C8: at every moment the keys of the pending table are exactly the tokens of the
\* live topics, so the token of a dropped topic (completed, timed out, failed send,
\* cancelled) is a key only if a later live topic reserved it again
C8_PendingKeysAreLiveTopics ==
    /\ ~hung
    /\ DOMAIN pending = {task[t].token : t \in LiveTasks}
    /\ \A t \in Tasks : task[t].pc # "dropping"

C8_Witness ==
    /\ \E t \in Tasks : Dropped(t) /\ task[t].pc = "cancelled"
    /\ \E t \in Tasks : Dropped(t) /\ task[t].pc = "timeout"
    /\ pending = <<>>

\* C9: the token Topic::new reserves is no key of the pending table at the call, the
\* live topics hold pairwise distinct tokens, and the search of Topic::new finds a
\* token whatever the random start is
C9_DistinctTokens ==
    /\ \A t, u \in LiveTasks : t # u => task[t].token # task[u].token
    /\ \A first \in FirstValues :
          /\ ChooseToken(pending, first) \in Tokens
          /\ ChooseToken(pending, first) \notin DOMAIN pending

C9_Witness ==
    \E t, u \in LiveTasks : task[t].token = U16 - 1 /\ task[u].token = 0

\* C10: the first invocation of Master::run on a fresh master enters the receive
\* loop, and at most one invocation ever reads RX
C10_RunUnique ==
    /\ runs # <<>> => runs[1].pc # "panicked"
    /\ Cardinality({r \in DOMAIN runs : Reading(r)}) <= 1

\* C11: as long as bus reads succeed Master::run never panics, whatever bytes are
\* received, in particular whatever the size field of a header whose checksum matches
C11_RunNeverPanics == cu.pc # "panicked"

(***************************************************************************)
(* SpecError: one slave receives refused commands and writes of ERROR      *)
(***************************************************************************)
\* any frame is put on the chain
ChainSendFrame(header, data) ==
    /\ flight = <<>>
    /\ \A i \in Positions : slave[i].pc = "idle"
    /\ sent' = [header |-> header, data |-> data]
    /\ flight' = <<[at |-> 1, bytes |-> FrameBytes(header, data)]>>
    /\ executedBy' = {}
    /\ UNCHANGED <<chain, slave, mlock, pending, task, runs, wire, rx, hung, cu>>

\* a read of VERSION flagged both fixed and topological: InvalidCommand
BothFlagsFrame ==
    [header |-> [token |-> 4680, access |-> MkAccess(TRUE, FALSE, TRUE, TRUE), executed |-> 0,
                 address |-> AddressNew(0, VERSION), size |-> 1, checksum |-> checksum(<<0>>)],
     data |-> <<0>>]

\* a read of two bytes at the last byte of the buffer: InvalidRegister
OutOfBufferFrame ==
    [header |-> [token |-> 4681, access |-> MkAccess(TRUE, FALSE, FALSE, TRUE), executed |-> 0,
                 address |-> AddressNew(0, MEM - 1), size |-> 2, checksum |-> checksum(<<0, 0>>)],
     data |-> <<0, 0>>]

\* the master writes the ERROR register: CommandError::None or InvalidSize
ErrorWriteFrame(code) ==
    [header |-> [token |-> 4682, access |-> MkAccess(FALSE, TRUE, FALSE, TRUE), executed |-> 0,
                 address |-> AddressNew(0, ERROR), size |-> 1, checksum |-> checksum(<<code>>)],
     data |-> <<code>>]

ErrorFrames == {BothFlagsFrame, OutOfBufferFrame, ErrorWriteFrame(ErrNone), ErrorWriteFrame(3)}

InitError ==
    /\ chain = 1
    /\ slave = [i \in {1} |-> SlaveNew(TestDevice)]
    /\ ChainIdle
    /\ MasterUnused

NextError ==
    \/ SlaveRun(1)
    \/ SlaveReceive(1)
    \/ SlaveLock(1)
    \/ \E f \in ErrorFrames : ChainSendFrame(f.header, f.data)
    \/ ChainCollect

SpecError == InitError /\ [][NextError]_vars

\* the command the slave holds writes a range that covers the ERROR register
WritesError(s) ==
    /\ s.pc = "exchange"
    /\ AccWrite(s.recv_header.access)
    /\ AddrRegister(s.recv_header.address) <= ERROR
    /\ ERROR < AddrRegister(s.recv_header.address) + s.recv_header.size

\* C12: the ERROR register changes only by a command that writes it, or by a refusal
\* recorded while it holds None; a refusal met while it holds another code leaves it
C12_StickyError ==
    [][\A i \in Positions :
        LET old == BufAt(slave[i].buffer, ERROR)
            new == BufAt(slave'[i].buffer, ERROR)
            refusal == slave[i].pc = "error" /\ slave'[i].pc = "idle"
        IN  /\ old # new => \/ WritesError(slave[i])
                            \/ refusal /\ old = ErrNone
            /\ refusal => new = IF old = ErrNone THEN slave[i].err ELSE old]_vars

C12_Witness ==
    /\ Returned /\ sent = OutOfBufferFrame
    /\ AccError(Response.access)
    /\ BufAt(slave[1].buffer, ERROR) = ErrInvalidCommand

(***************************************************************************)
(* SpecLoss: one slave receives writes whose payload was corrupted         *)
(***************************************************************************)
\* a write of two bytes at USER whose payload does not have the checksum of the header
CorruptedWrite(fixed, topological, address) ==
    [header |-> [token |-> 4690, access |-> MkAccess(FALSE, TRUE, fixed, topological),
                 executed |-> 0, address |-> address, size |-> 2,
                 checksum |-> checksum(<<8, 9>>)],
     data |-> <<8, 1>>]

\* a write of two bytes at USER + 2, as sent
SoundWrite ==
    [header |-> [token |-> 4691, access |-> MkAccess(FALSE, TRUE, FALSE, TRUE),
                 executed |-> 0, address |-> AddressNew(0, USER + 2), size |-> 2,
                 checksum |-> checksum(<<5, 6>>)],
     data |-> <<5, 6>>]

LossFrames ==
    {CorruptedWrite(TRUE, FALSE, AddressNew(0, USER)),
     CorruptedWrite(FALSE, TRUE, AddressNew(0, USER)),
     CorruptedWrite(FALSE, FALSE, 0),
     SoundWrite}

LossCount(i) == FromBE16(ReadBytes(slave[i].buffer, LOSS, 2))

InitLoss ==
    /\ chain = 1
    /\ slave = [i \in {1} |-> SlaveNew(TestDevice)]
    /\ ChainIdle
    /\ MasterUnused

NextLoss ==
    \/ SlaveRun(1)
    \/ SlaveReceive(1)
    \/ SlaveLock(1)
    \/ \E f \in LossFrames : LossCount(1) < MaxLoss /\ ChainSendFrame(f.header, f.data)
    \/ ChainCollect

SpecLoss == InitLoss /\ [][NextLoss]_vars

\* C13: a slave that meets a write whose payload does not match the data checksum adds
\* one to LOSS, changes no other byte of its buffer, leaves executed as it is and
\* forwards the header and the payload as it received them (the rank of a topological
\* header left aside)
C13_CorruptedWriteForwarded ==
    [][\A i \in Positions :
        (slave[i].pc = "loss" /\ slave'[i].pc = "idle") =>
            /\ LossCount(i)' = LossCount(i) + 1
            /\ \A a \in (DOMAIN slave[i].buffer \cup DOMAIN slave'[i].buffer) \ {LOSS, LOSS + 1} :
                  BufAt(slave'[i].buffer, a) = BufAt(slave[i].buffer, a)
            /\ Response'.executed = slave[i].recv_header.executed
            /\ Response'.token = slave[i].recv_header.token
            /\ Response'.access = slave[i].recv_header.access
            /\ Response'.size = slave[i].recv_header.size
            /\ Response'.checksum = slave[i].recv_header.checksum
            /\ ResponseData' = slave[i].receive]_vars

\* the value of the ADDRESS register of the slave at position i
AddressRegister(i) == FromBE16(ReadBytes(slave[i].buffer, ADDRESS, 2))

\* C14: after a write of a to ADDRESS at offset 0, the slave answers to the fixed id a:
\* the address it compares fixed commands with is the value of the register, a fixed
\* command that came back was executed by every slave whose register holds its
\* slave_id, and a read of VERSION then returns 1 with executed >= 1
C14_AddressRoundTrip ==
    /\ \A i \in Positions : slave[i].address = AddressRegister(i)
    /\ (Returned /\ SentFixed) =>
          /\ \A i \in Positions : AddressRegister(i) = SentRank => i \in executedBy
          /\ executedBy # {} => /\ Response.executed >= 1
                                /\ AccRead(sent.header.access) => ResponseData = <<1>>

C14_Witness ==
    /\ Returned /\ SentFixed /\ SentRank = 2
    /\ AddressRegister(1) = 2
    /\ 1 \in executedBy
    /\ ResponseData = <<1>>

(***************************************************************************)
(* SpecSize: MaxTasks one-shot commands on zeroed buffers of every length  *)
(* around MAX_COMMAND; no run is reading, so a receive ends by its timeout *)
(***************************************************************************)
PayloadSizes == {1, 2, MAX_COMMAND, MAX_COMMAND + 1}

\* T::Bytes::zeroed() of `size` bytes
Zeroed(size) == [k \in 1..size |-> 0]

TooLong == <<[kind |-> "master", value |-> "data is longer than maximum allowed message"]>>

\* Topic::new on a buffer of `size` bytes: one poll of master.pending.lock().await, then
\* the token is reserved, the size is converted and the pending entry is inserted
TopicNew(t, first, size) ==
    /\ ~hung
    /\ task[t].pc \in {"idle", "new"}
    /\ LET l == TryNew(mlock.pending)
           token == ChooseToken(pending, first)
       IN  IF ~l.got
           THEN /\ mlock' = [mlock EXCEPT !.pending = l.locked]
                /\ task' = [task EXCEPT ![t].pc = "new"]
                /\ UNCHANGED pending
           ELSE /\ token \in Tokens
                /\ IF ~usize_to_message_ok(size)
                   THEN \* `?` returns the error: the guard is dropped, nothing was inserted
                        /\ task' = [task EXCEPT ![t].pc = "failed", ![t].outcome = TooLong]
                        /\ UNCHANGED pending
                   ELSE /\ pending' = PendingInsert(pending, token,
                                [TopicCommand(token, TaskRequest) EXCEPT
                                    !.access = MkAccess(FALSE, FALSE, FALSE, TRUE),
                                    !.checksum = 0, !.size = size],
                                Zeroed(size))
                        /\ task' = [task EXCEPT ![t].pc = "send_lock", ![t].token = token]
                /\ mlock' = [mlock EXCEPT !.pending = GuardDrop]
    /\ UNCHANGED <<chain, slave, flight, sent, executedBy, runs, wire, rx, hung, cu>>

InitSize ==
    /\ ChainUnused
    /\ mlock = [receive |-> FALSE, transmit |-> FALSE, pending |-> FALSE]
    /\ pending = <<>>
    /\ task = [t \in Tasks |-> TaskIdle]
    /\ runs = <<>>
    /\ wire = <<>>
    /\ rx = <<>>
    /\ hung = FALSE
    /\ cu = <<>>

NextSize ==
    \/ \E t \in Tasks, first \in FirstValues, size \in PayloadSizes : TopicNew(t, first, size)
    \/ \E t \in Tasks : TaskSendLock(t)
    \/ \E t \in Tasks : TaskSendTx(t)
    \/ \E t \in Tasks : TaskWrite(t)
    \/ \E t \in Tasks : TaskWriteFail(t)
    \/ \E t \in Tasks : TaskTimeout(t)

SpecSize == InitSize /\ [][NextSize]_vars

\* C15: a Topic::new that got the pending table for a payload longer than MAX_COMMAND
\* ends the command with MasterError("data is longer than maximum allowed message"),
\* leaves the pending table as it was and writes nothing on the bus
C15_TooLongRefused ==
    [][\A t \in Tasks, size \in PayloadSizes :
          (/\ size > MAX_COMMAND
           /\ TryNew(mlock.pending).got
           /\ \E first \in FirstValues : TopicNew(t, first, size))
          => /\ task'[t].pc = "failed"
             /\ task'[t].outcome = TooLong
             /\ pending' = pending
             /\ wire' = wire /\ rx' = rx]_vars

C15_Witness ==
    \E t \in Tasks :
        /\ task[t].pc = "failed"
        /\ task[t].outcome = TooLong
        /\ pending = <<>>
        /\ wire = <<>>

(***************************************************************************)
(* SpecCodec: a command header is encoded with to_be_bytes, then the bytes *)
(* are decoded with from_be_bytes                                          *)
(***************************************************************************)
\* headers whose access.error is clear: every flag combination, with and without the
\* reserved bits, and the extreme values of the other fields
CodecHeaders ==
    [token : {0, 258, U16 - 1},
     access : 0..15 \cup {112},
     executed : {0, 1, 255},
     address : {0, AddressNew(1, VERSION), AddressNew(U16 - 1, 32767)},
     size : {0, MAX_COMMAND - 1},
     checksum : {0, CHECKSUM_INITIAL}]

InitCodec ==
    /\ chain = 0
    /\ slave = <<>>
    /\ flight = <<>>
    /\ executedBy = {}
    /\ sent \in [header : CodecHeaders, data : {<<>>}]
    /\ mlock = [receive |-> FALSE, transmit |-> FALSE, pending |-> FALSE]
    /\ pending = <<>>
    /\ task = <<>>
    /\ runs = <<>>
    /\ wire = <<>>
    /\ rx = <<>>
    /\ hung = FALSE
    /\ cu = <<>>

\* Command::to_be_bytes
Encode ==
    /\ wire = <<>>
    /\ wire' = CommandToBytes(sent.header)
    /\ UNCHANGED <<chain, slave, flight, sent, executedBy, mlock, pending, task, runs, rx, hung, cu>>

\* Command::from_be_bytes
Decode ==
    /\ wire # <<>> /\ rx = <<>>
    /\ rx' = <<CommandFromBytes(wire)>>
    /\ UNCHANGED <<chain, slave, flight, sent, executedBy, mlock, pending, task, runs, wire, hung, cu>>

NextCodec == Encode \/ Decode

SpecCodec == InitCodec /\ [][NextCodec]_vars

\* C16 as stated: the encoding of a header is 10 bytes, and decoding them gives the header
C16_RoundTripTenBytes ==
    /\ wire # <<>> => Len(wire) = 10
    /\ rx # <<>> => rx[1] = sent.header

\* C16, amended: the encoding of a header whose access.error is clear is HEADER = 11
\* big-endian bytes, and decoding them gives the header again
C16_RoundTrip ==
    /\ wire # <<>> => /\ Len(wire) = HEADER
                      /\ \A k \in DOMAIN wire : wire[k] \in Byte
    /\ rx # <<>> => rx[1] = sent.header

C16_Witness ==
    /\ rx # <<>>
    /\ rx[1].token = 258 /\ rx[1].access = 15
    /\ rx[1].address = AddressNew(1, VERSION)
    /\ rx[1].size = MAX_COMMAND - 1

(***************************************************************************)
(* master/mapping.rs: Mapping and BufferMapping, as held by the user task  *)
(***************************************************************************)
MaxBuffers == 2     \* Mapping::buffer calls of one behaviour
MaxCalls == 5       \* BufferMapping::register and padding calls of one behaviour

COUNTER == [address |-> USER, size |-> 4]
OFFSET == [address |-> USER + 4, size |-> 2]
OFFSETED == [address |-> USER + 18, size |-> 4]

Topological42 == [kind |-> "topological", id |-> 42]
Fixed1 == [kind |-> "fixed", id |-> 1]

\* the register calls of the behaviours: the three registers on one host, one on another
RegisterCalls ==
    {[host |-> Topological42, register |-> r] : r \in {COUNTER, OFFSET, OFFSETED}}
    \cup {[host |-> Fixed1, register |-> OFFSET]}

\* T::Bytes::SIZE of the packed types given to Mapping::buffer
BufferSizes == {6, 10, MAX_COMMAND}

\* Mapping::new, with what the user task got back from the builder so far
MappingNew ==
    [pc |-> "mapping", map |-> <<>>, end |-> 0, buffer |-> <<>>,
     reserved |-> <<>>, appended |-> <<>>, built |-> <<>>, outcome |-> <<>>, calls |-> 0]

\* a BufferMapping::register that pushes the entry whatever the running size
RegisterFits(b, size) == TRUE

\* the assertion of BufferMapping::register, on the cursor after the register
RegisterAssert(b, size) == b.end + size <= b.start + b.size

\* a Mapping::buffer that leaves the cursor where it was
MappingBufferNoAdvance(m, size) ==
    [m EXCEPT !.buffer = <<[start |-> m.end, end |-> m.end, size |-> size]>>,
              !.reserved = Append(m.reserved, [start |-> m.end, size |-> size]),
              !.appended = <<>>]

\* Mapping::buffer::<T>() with T::Bytes::SIZE = size
MappingBuffer(m, size) ==
    IF ~usize_to_message_ok(size)
    THEN [m EXCEPT !.outcome = TooLong]
    ELSE [m EXCEPT !.end = m.end + size,
                   !.buffer = <<[start |-> m.end, end |-> m.end, size |-> size]>>,
                   !.reserved = Append(m.reserved, [start |-> m.end, size |-> size]),
                   !.appended = <<>>,
                   !.outcome = <<>>]

\* BufferMapping::padding
BufferPadding(m, size) ==
    [m EXCEPT !.buffer[1].end = @ + size, !.appended = Append(@, size), !.calls = @ + 1]

\* BufferMapping::register: the assertion, then the push on the host's vector
BufferRegister(m, host, register) ==
    LET b == m.buffer[1]
        table == IF host \in DOMAIN m.map THEN m.map[host] ELSE <<>>
        entry == [virtual_start |-> b.end, slave_start |-> register.address, size |-> register.size]
    IN  IF ~RegisterAssert(b, register.size)
        THEN [m EXCEPT !.pc = "panicked", !.buffer[1].end = @ + register.size, !.calls = @ + 1]
        ELSE [m EXCEPT !.buffer[1].end = @ + register.size,
                       !.appended = Append(@, register.size),
                       !.calls = @ + 1,
                       !.map = [h \in DOMAIN m.map \cup {host} |->
                                   IF h = host THEN Append(table, entry) ELSE m.map[h]]]

\* BufferMapping::build: the assertion, then the virtual register
BufferBuild(m) ==
    LET b == m.buffer[1]
    IN  IF b.end # b.start + b.size
        THEN [m EXCEPT !.pc = "panicked"]
        ELSE [m EXCEPT !.buffer = <<>>,
                       !.built = Append(@, [address |-> b.start, size |-> b.size])]

(***************************************************************************)
(* SpecMapping: the user task builds a Mapping with up to MaxBuffers       *)
(* buffers and MaxCalls register and padding calls                         *)
(***************************************************************************)
Building == task # <<>> /\ task[1].pc = "mapping"

InitMapping ==
    /\ ChainUnused
    /\ mlock = [receive |-> FALSE, transmit |-> FALSE, pending |-> FALSE]
    /\ pending = <<>>
    /\ task = <<MappingNew>>
    /\ runs = <<>>
    /\ wire = <<>>
    /\ rx = <<>>
    /\ hung = FALSE
    /\ cu = <<>>

UnchangedButTask == UNCHANGED <<chain, slave, flight, sent, executedBy, mlock, pending, runs, wire, rx, hung, cu>>

\* mapping.buffer::<T>(): the previous BufferMapping, if any, was built
Buffer(size) ==
    /\ Building /\ task[1].buffer = <<>>
    /\ Len(task[1].reserved) < MaxBuffers
    /\ task' = <<MappingBuffer(task[1], size)>>
    /\ UnchangedButTask

Padding(size) ==
    /\ Building /\ task[1].buffer # <<>>
    /\ task[1].calls < MaxCalls
    /\ task' = <<BufferPadding(task[1], size)>>
    /\ UnchangedButTask

Register(c) ==
    /\ Building /\ task[1].buffer # <<>>
    /\ task[1].calls < MaxCalls
    /\ task' = <<BufferRegister(task[1], c.host, c.register)>>
    /\ UnchangedButTask

Build ==
    /\ Building /\ task[1].buffer # <<>>
    /\ task' = <<BufferBuild(task[1])>>
    /\ UnchangedButTask

NextMapping ==
    \/ \E size \in BufferSizes : Buffer(size)
    \/ Padding(2)
    \/ \E c \in RegisterCalls : Register(c)
    \/ Build

SpecMapping == InitMapping /\ [][NextMapping]_vars

RECURSIVE SumSeq(_)
SumSeq(q) == IF q = <<>> THEN 0 ELSE q[1] + SumSeq(Tail(q))

SizesOf(q) == [k \in DOMAIN q |-> q[k].size]

\* C17: the k-th buffer starts at the sum of the sizes of the buffers before it (the
\* first at 0) and the cursor is at the sum of all of them; a register call appends to
\* its host's list, leaving the others, the entry at buffer start + bytes appended so
\* far, with the register's address and size; build returns the buffer start and size
C17_BufferLayout ==
    [][/\ Building' =>
          /\ \A k \in DOMAIN task'[1].reserved :
                task'[1].reserved[k].start = SumSeq(SizesOf(SubSeq(task'[1].reserved, 1, k - 1)))
          /\ task'[1].end = SumSeq(SizesOf(task'[1].reserved))
       /\ \A c \in RegisterCalls :
            (Register(c) /\ Building') =>
                LET m == task[1]
                    old == IF c.host \in DOMAIN m.map THEN m.map[c.host] ELSE <<>>
                IN  /\ task'[1].map[c.host] =
                          Append(old, [virtual_start |-> m.buffer[1].start + SumSeq(m.appended),
                                       slave_start |-> c.register.address,
                                       size |-> c.register.size])
                    /\ \A h \in DOMAIN m.map \ {c.host} : task'[1].map[h] = m.map[h]
       /\ (Build /\ Building') =>
            task'[1].built = Append(task[1].built,
                                    [address |-> task[1].buffer[1].start,
                                     size |-> task[1].buffer[1].size])]_vars

\* the layout of the offline_mapping test
C17_Witness ==
    /\ Building
    /\ task[1].built = <<[address |-> 0, size |-> 6], [address |-> 6, size |-> 10]>>
    /\ DOMAIN task[1].map = {Topological42}
    /\ task[1].map[Topological42] =
          <<[virtual_start |-> 0, slave_start |-> USER + 18, size |-> 4],
            [virtual_start |-> 4, slave_start |-> USER + 4, size |-> 2],
            [virtual_start |-> 6, slave_start |-> USER + 4, size |-> 2],
            [virtual_start |-> 8, slave_start |-> USER, size |-> 4],
            [virtual_start |-> 12, slave_start |-> USER + 18, size |-> 4]>>

\* the entry e lies in the virtual range reserved for the buffer b
EntryWithin(e, b) == b.start <= e.virtual_start /\ e.virtual_start + e.size <= b.start + b.size

\* C18: a register whose size added to the running size of the buffer exceeds the size
\* of T panics and leaves every host's list as it was, and one that fits records an
\* entry inside the buffer's range; a build succeeds exactly when the registered and
\* padded sizes total the size of T; every recorded entry lies inside the range of one
\* buffer, and the ranges of the buffers are disjoint
C18_EntriesWithinBuffer ==
    [][/\ \A c \in RegisterCalls :
            Register(c) =>
                LET m == task[1]
                    b == m.buffer[1]
                IN  IF SumSeq(m.appended) + c.register.size > b.size
                    THEN /\ task'[1].pc = "panicked"
                         /\ task'[1].map = m.map
                    ELSE /\ Building'
                         /\ EntryWithin(task'[1].map[c.host][Len(task'[1].map[c.host])], b)
       /\ Build => (Building' <=> SumSeq(task[1].appended) = task[1].buffer[1].size)
       /\ \A h \in DOMAIN task'[1].map : \A k \in DOMAIN task'[1].map[h] :
            \E j \in DOMAIN task'[1].reserved :
                EntryWithin(task'[1].map[h][k], task'[1].reserved[j])
       /\ \A j, k \in DOMAIN task'[1].reserved :
            j < k => task'[1].reserved[j].start + task'[1].reserved[j].size
                        <= task'[1].reserved[k].start]_vars

\* a register was refused in the second buffer, after entries were recorded in both
C18_Witness ==
    /\ task # <<>> /\ task[1].pc = "panicked"
    /\ Len(task[1].reserved) = 2 /\ Len(task[1].built) = 1
    /\ task[1].buffer[1].end > task[1].buffer[1].start + task[1].buffer[1].size
    /\ task[1].appended # <<>>

(***************************************************************************)
(* SpecConfigure: the user task holds a built Mapping and configures hosts *)
(* of a chain of NSlaves slaves, one Mapping::configure at a time          *)
(***************************************************************************)
MappingDefault == [virtual_start |-> 0, slave_start |-> 0, size |-> 0]

Topological0 == [kind |-> "topological", id |-> 0]
Topological1 == [kind |-> "topological", id |-> 1]
Fixed0 == [kind |-> "fixed", id |-> 0]
Fixed7 == [kind |-> "fixed", id |-> 7]

\* one entry more than the table holds
ManyEntries ==
    [k \in 1..(TABLE_CAPACITY + 1) |-> [virtual_start |-> k - 1, slave_start |-> USER, size |-> 1]]

\* Mapping::map of the behaviours: the entries of the streaming_virtual test for the
\* first slave, one entry for the fixed address 0, too many for the fixed address 1
ConfigureMap ==
    [h \in {Topological0, Fixed0, Fixed1} |->
        IF h = Topological0
        THEN <<[virtual_start |-> 0, slave_start |-> OFFSETED.address, size |-> OFFSETED.size],
               [virtual_start |-> 4, slave_start |-> OFFSET.address, size |-> OFFSET.size]>>
        ELSE IF h = Fixed0
        THEN <<[virtual_start |-> 6, slave_start |-> COUNTER.address, size |-> COUNTER.size]>>
        ELSE ManyEntries]

ConfigureHosts == {Topological0, Topological1, Fixed0, Fixed1, Fixed7}

TooMany == <<[kind |-> "master", value |-> "too many items in mapping table"]>>

\* Answer::one
AnswerOne(executed) ==
    IF executed = 1 THEN <<[kind |-> "ok", value |-> 1]>>
    ELSE IF executed = 0 THEN <<[kind |-> "master", value |-> "no slave answered"]>>
    ELSE <<[kind |-> "master", value |-> "incorrect number of answers"]>>

\* a table whose size is the index of its last entry
ConfigureTableLastIndex(map, host) ==
    LET table == IF host \in DOMAIN map THEN map[host] ELSE <<>>
    IN  [size |-> Max(Len(table) - 1, 0),
         map |-> [k \in 1..TABLE_CAPACITY |-> IF k <= Len(table) THEN table[k] ELSE MappingDefault]]

\* the MappingTable Mapping::configure fills for a host of at most TABLE_CAPACITY entries
ConfigureTable(map, host) ==
    LET table == IF host \in DOMAIN map THEN map[host] ELSE <<>>
    IN  [size |-> Len(table),
         map |-> [k \in 1..TABLE_CAPACITY |-> IF k <= Len(table) THEN table[k] ELSE MappingDefault]]

\* the command of slave.write(registers::MAPPING, mapping)
ConfigureCommand(map, host) ==
    LET t == ConfigureTable(map, host)
    IN  [kind |-> host.kind, host |-> host.id, address |-> MAPPING, read |-> FALSE, write |-> TRUE,
         data |-> MappingTableToBytes(t.size, t.map), token |-> 4700]

InitConfigure ==
    /\ chain = NSlaves
    /\ slave = [i \in 1..NSlaves |-> SlaveNew(TestDevice)]
    /\ ChainIdle
    /\ mlock = [receive |-> FALSE, transmit |-> FALSE, pending |-> FALSE]
    /\ pending = <<>>
    /\ task = <<[pc |-> "idle", map |-> ConfigureMap, host |-> Topological0, outcome |-> <<>>]>>
    /\ runs = <<>>
    /\ wire = <<>>
    /\ rx = <<>>
    /\ hung = FALSE
    /\ cu = <<>>

\* Mapping::configure up to the end of Topic::send, or to its early return
Configure(host) ==
    /\ task[1].pc \in {"idle", "done"}
    /\ flight = <<>>
    /\ \A i \in Positions : slave[i].pc = "idle"
    /\ IF host \in DOMAIN task[1].map /\ Len(task[1].map[host]) > TABLE_CAPACITY
       THEN /\ task' = <<[task[1] EXCEPT !.pc = "done", !.host = host, !.outcome = TooMany]>>
            /\ UNCHANGED <<flight, sent, executedBy, pending>>
       ELSE LET c == ConfigureCommand(task[1].map, host)
            IN  /\ usize_to_message_ok(Len(c.data))
                /\ pending' = PendingInsert(pending, c.token, TopicCommand(c.token, c), c.data)
                /\ sent' = [header |-> TopicCommand(c.token, c), data |-> c.data]
                /\ flight' = <<[at |-> 1, bytes |-> FrameBytes(TopicCommand(c.token, c), c.data)]>>
                /\ executedBy' = {}
                /\ task' = <<[task[1] EXCEPT !.pc = "receive", !.host = host, !.outcome = <<>>]>>
    /\ UNCHANGED <<chain, slave, mlock, runs, wire, rx, hung, cu>>

\* the frame came back: Master::run dispatches it, Topic::receive takes the result,
\* the topic is dropped and Answer::one gives what configure returns
ConfigureReturn ==
    /\ task[1].pc = "receive"
    /\ Returned
    /\ LET table == Dispatch(pending, Response, ResponseData)
           result == table[sent.header.token].result
       IN  /\ pending' = PendingRemove(table, sent.header.token)
           /\ task' = <<[task[1] EXCEPT !.pc = "done",
                            !.outcome = IF result[1].kind = "ok" THEN AnswerOne(result[1].value)
                                        ELSE result]>>
    /\ flight' = <<>>
    /\ UNCHANGED <<chain, slave, sent, executedBy, mlock, runs, wire, rx, hung, cu>>

NextConfigure ==
    \/ \E i \in Positions : SlaveRun(i)
    \/ \E i \in Positions : SlaveReceive(i)
    \/ \E i \in Positions : SlaveLock(i)
    \/ \E host \in ConfigureHosts : Configure(host)
    \/ ConfigureReturn

SpecConfigure == InitConfigure /\ [][NextConfigure]_vars

\* the entries recorded for a host
EntriesOf(map, host) == IF host \in DOMAIN map THEN map[host] ELSE <<>>

\* C19: configure writes to MAPPING a table of 1 + 8 * 128 bytes whose size byte is the
\* number of entries of the host, whose first entries are the host's in insertion order
\* and whose other entries are zero; with more than 128 entries it fails with
\* "too many items in mapping table" and nothing is sent; it returns Ok only when
\* exactly one slave executed the write
C19_ConfigureTable ==
    [][/\ \A host \in ConfigureHosts :
            Configure(host) =>
                LET entries == EntriesOf(task[1].map, host)
                    n == Len(entries)
                    data == sent'.data
                IN  IF n > TABLE_CAPACITY
                    THEN /\ task'[1].outcome = TooMany
                         /\ flight' = <<>> /\ pending' = pending /\ sent' = sent
                    ELSE /\ AccWrite(sent'.header.access) /\ ~AccRead(sent'.header.access)
                         /\ AddrRegister(sent'.header.address) = MAPPING
                         /\ flight'[1].bytes = FrameBytes(sent'.header, data)
                         /\ Len(data) = 1 + 8 * TABLE_CAPACITY
                         /\ data[1] = n
                         /\ \A k \in 1..n :
                               MappingFromBytes(SubSeq(data, 8 * k - 6, 8 * k + 1)) = entries[k]
                         /\ \A j \in (8 * n + 2)..Len(data) : data[j] = 0
       /\ (ConfigureReturn /\ task'[1].outcome[1].kind = "ok") =>
            /\ Response.executed = 1
            /\ Cardinality(executedBy) = 1]_vars

\* the first slave was configured with its two entries and configure returned Ok
C19_Witness ==
    /\ task # <<>> /\ task[1].pc = "done"
    /\ task[1].host = Topological0
    /\ task[1].outcome = <<[kind |-> "ok", value |-> 1]>>
    /\ chain >= 1 /\ Len(slave[1].mapping) = 2
    /\ BufAt(slave[1].buffer, MAPPING) = 2

(***************************************************************************)
(* SpecStream: one Stream<u16> on the register USER of the only slave; the *)
(* user task sends reads, writes and exchanges, receives and gets, while   *)
(* Master::run (invoked twice: the first invocation panicked) dispatches   *)
(* the frames the chain returned                                           *)
(***************************************************************************)
StreamToken == 4710

StreamValues == {<<5, 6>>}

\* what Stream::new left in the pending table
StreamCommand ==
    [TopicCommand(StreamToken,
        [kind |-> "topological", host |-> 0, address |-> USER, read |-> FALSE, write |-> FALSE,
         data |-> Zeros(2)])
     EXCEPT !.checksum = 0]

InitStream ==
    /\ chain = 1
    /\ slave = [i \in {1} |-> SlaveNew(TestDevice)]
    /\ ChainIdle
    /\ mlock = [receive |-> TRUE, transmit |-> FALSE, pending |-> FALSE]
    /\ pending = PendingInsert(<<>>, StreamToken, StreamCommand, Zeros(2))
    /\ task = <<[pc |-> "stream", got |-> <<>>, received |-> <<>>]>>
    /\ runs = <<[pc |-> "panicked", frame |-> <<>>], [pc |-> "read", frame |-> <<>>]>>
    /\ wire = <<>>
    /\ rx = <<>>
    /\ hung = FALSE
    /\ cu = <<>>

\* Topic::send(read, write, Some(data)): one poll of master.pending.lock().await, then
\* the command is updated and the frame written on the free bus; the guards are dropped
StreamSend(read, write, data) ==
    /\ flight = <<>>
    /\ slave[1].pc = "idle"
    /\ LET l == TryNew(mlock.pending)
           command == [pending[StreamToken].command EXCEPT
                          !.checksum = checksum(data),
                          !.access = SetBit(SetBit(@, 0, read), 1, write)]
       IN  IF ~l.got
           THEN /\ mlock' = [mlock EXCEPT !.pending = l.locked]
                /\ UNCHANGED <<pending, sent, flight, executedBy>>
           ELSE /\ pending' = [pending EXCEPT ![StreamToken].command = command]
                /\ sent' = [header |-> command, data |-> data]
                /\ flight' = <<[at |-> 1, bytes |-> FrameBytes(command, data)]>>
                /\ executedBy' = {}
                /\ mlock' = [mlock EXCEPT !.pending = GuardDrop, !.transmit = GuardDrop]
    /\ UNCHANGED <<chain, slave, task, runs, wire, rx, hung, cu>>

\* Stream::send_read
SendRead == StreamSend(TRUE, FALSE, Zeros(2))

\* Stream::send_write
SendWrite(value) == StreamSend(FALSE, TRUE, value)

\* Stream::send_exchange
SendExchange(value) == StreamSend(TRUE, TRUE, value)

\* Stream::get: one poll of master.pending.lock().await, then the buffer is copied
StreamGet ==
    /\ LET l == TryNew(mlock.pending)
       IN  IF ~l.got
           THEN /\ mlock' = [mlock EXCEPT !.pending = l.locked]
                /\ UNCHANGED task
           ELSE /\ task' = <<[task[1] EXCEPT !.got = pending[StreamToken].buffer]>>
                /\ mlock' = [mlock EXCEPT !.pending = GuardDrop]
    /\ UNCHANGED <<chain, slave, flight, sent, executedBy, pending, runs, wire, rx, hung, cu>>

\* Stream::receive: one poll of the poll_fn of Topic::receive with a copy destination
StreamReceive ==
    /\ LET l == TryNew(mlock.pending)
           p == pending[StreamToken]
       IN  IF ~l.got
           THEN /\ mlock' = [mlock EXCEPT !.pending = l.locked]
                /\ UNCHANGED <<task, pending>>
           ELSE /\ mlock' = [mlock EXCEPT !.pending = GuardDrop]
                /\ IF p.result # <<>>
                   THEN /\ pending' = [pending EXCEPT ![StreamToken].result = <<>>]
                        /\ task' = <<[task[1] EXCEPT !.received = p.buffer]>>
                   ELSE /\ pending' = [pending EXCEPT ![StreamToken].waker = TRUE]
                        /\ UNCHANGED task
    /\ UNCHANGED <<chain, slave, flight, sent, executedBy, runs, wire, rx, hung, cu>>

\* the frame of the last slave reached the RX side of the master
BusCollect ==
    /\ Returned
    /\ Len(rx) < MaxFrames
    /\ rx' = Append(rx, [header |-> Response, data |-> ResponseData])
    /\ flight' = <<>>
    /\ UNCHANGED <<chain, slave, sent, executedBy, mlock, pending, task, runs, wire, hung, cu>>

NextStream ==
    \/ SlaveRun(1)
    \/ SlaveReceive(1)
    \/ SlaveLock(1)
    \/ SendRead
    \/ \E value \in StreamValues : SendWrite(value)
    \/ \E value \in StreamValues : SendExchange(value)
    \/ StreamGet
    \/ StreamReceive
    \/ BusCollect
    \/ \E r \in DOMAIN runs : RunRead(r)
    \/ \E r \in DOMAIN runs : RunLock(r)

SpecStream == InitStream /\ [][NextStream]_vars

StreamBuffer == pending[StreamToken].buffer

\* C20: a send leaves the buffer of the stream as it is; the buffer changes only in the
\* step where run dispatches a frame of the stream's token whose payload matches its
\* checksum and gives the record an Ok result, and it becomes that payload; a get that
\* got the table returns the buffer, which is all zero until a response is accepted
C20_StreamBuffer ==
    [][/\ (\/ SendRead
           \/ \E value \in StreamValues : SendWrite(value) \/ SendExchange(value))
          => StreamBuffer' = StreamBuffer
       /\ StreamBuffer' # StreamBuffer =>
            \E r \in DOMAIN runs :
                /\ runs[r].pc = "lock" /\ runs'[r].pc = "read"
                /\ runs[r].frame[1].header.token = StreamToken
                /\ ~AccError(runs[r].frame[1].header.access)
                /\ runs[r].frame[1].header.checksum = checksum(runs[r].frame[1].data)
                /\ pending'[StreamToken].result # <<>>
                /\ pending'[StreamToken].result[1].kind = "ok"
                /\ StreamBuffer' = runs[r].frame[1].data
       /\ (\A r \in DOMAIN runs :
              (runs[r].pc = "lock" /\ runs'[r].pc = "read"
               /\ pending'[StreamToken].result # pending[StreamToken].result
               /\ pending'[StreamToken].result[1].kind = "ok")
              => StreamBuffer' = runs[r].frame[1].data)
       /\ task'[1].got # task[1].got => task'[1].got = StreamBuffer]_vars

\* a get returned the payload of an accepted response that is not the zeroed buffer
C20_Witness ==
    /\ task # <<>> /\ task[1].pc = "stream"
    /\ task[1].got = <<5, 6>>
    /\ pending[StreamToken].buffer = <<5, 6>>
    /\ sent.header.access = MkAccess(TRUE, FALSE, FALSE, TRUE)

(***************************************************************************)
(* SpecAnswer: an Answer of every executed count is consumed with any,     *)
(* one and exact                                                           *)
(***************************************************************************)
NoSlaveAnswered == <<[kind |-> "master", value |-> "no slave answered"]>>
IncorrectNumber == <<[kind |-> "master", value |-> "incorrect number of answers"]>>

\* Answer::any; Ok carries the executed count of the answer the data came with
AnswerAny(executed) ==
    IF executed = 0 THEN NoSlaveAnswered ELSE <<[kind |-> "ok", value |-> executed]>>

\* an exact that accepts every count from n on
AnswerExactAtLeast(executed, n) ==
    IF executed < n
    THEN IF executed = 0 THEN NoSlaveAnswered ELSE IncorrectNumber
    ELSE <<[kind |-> "ok", value |-> executed]>>

\* Answer::exact
AnswerExact(executed, n) ==
    IF executed # n
    THEN IF executed = 0 THEN NoSlaveAnswered ELSE IncorrectNumber
    ELSE <<[kind |-> "ok", value |-> executed]>>

\* the counts given to exact
ExactCounts == {0, 1, 2, 255}

InitAnswer ==
    /\ ChainUnused
    /\ mlock = [receive |-> FALSE, transmit |-> FALSE, pending |-> FALSE]
    /\ pending = <<>>
    /\ task \in {<<[pc |-> "answer", executed |-> e, n |-> n,
                    any |-> <<>>, one |-> <<>>, exact |-> <<>>]>> : e \in Byte, n \in ExactCounts}
    /\ runs = <<>>
    /\ wire = <<>>
    /\ rx = <<>>
    /\ hung = FALSE
    /\ cu = <<>>

TakeAny ==
    /\ task[1].any = <<>>
    /\ task' = <<[task[1] EXCEPT !.any = AnswerAny(task[1].executed)]>>
    /\ UnchangedButTask

\* Answer::one is exact(1)
TakeOne ==
    /\ task[1].one = <<>>
    /\ task' = <<[task[1] EXCEPT !.one = AnswerExact(task[1].executed, 1)]>>
    /\ UnchangedButTask

TakeExact ==
    /\ task[1].exact = <<>>
    /\ task' = <<[task[1] EXCEPT !.exact = AnswerExact(task[1].executed, task[1].n)]>>
    /\ UnchangedButTask

NextAnswer == TakeAny \/ TakeOne \/ TakeExact

SpecAnswer == InitAnswer /\ [][NextAnswer]_vars

\* what an accessor returned is the data
IsData(result) == result[1].kind = "ok"

\* C21: any returns the data iff executed >= 1, one iff executed = 1, exact(n) iff
\* executed = n; every other return is a MasterError, "no slave answered" when executed = 0
C21_AnswerAccessors ==
    LET a == task[1]
    IN  /\ a.any # <<>> =>
            /\ IsData(a.any) <=> a.executed >= 1
            /\ ~IsData(a.any) => a.any[1].kind = "master"
            /\ (~IsData(a.any) /\ a.executed = 0) => a.any = NoSlaveAnswered
        /\ a.one # <<>> =>
            /\ IsData(a.one) <=> a.executed = 1
            /\ ~IsData(a.one) => a.one[1].kind = "master"
            /\ (~IsData(a.one) /\ a.executed = 0) => a.one = NoSlaveAnswered
        /\ a.exact # <<>> =>
            /\ IsData(a.exact) <=> a.executed = a.n
            /\ ~IsData(a.exact) => a.exact[1].kind = "master"
            /\ (~IsData(a.exact) /\ a.executed = 0) => a.exact = NoSlaveAnswered

\* two slaves executed: any gives the data, one and exact(1) refuse
C21_Witness ==
    /\ task # <<>> /\ task[1].pc = "answer"
    /\ task[1].executed = 2 /\ task[1].n = 1
    /\ task[1].any = <<[kind |-> "ok", value |-> 2]>>
    /\ task[1].one = IncorrectNumber
    /\ task[1].exact = IncorrectNumber

\* the tasks that hold a guard of the mutex m of the master
GuardHolders(m) == {t \in Tasks : m \in task[t].holds}

\* C22: at most one guard of a BusyMutex exists at any time, under any interleaving of
\* the tasks that try the mutex
C22_OneGuard ==
    \A m \in {"pending", "transmit"} : Cardinality(GuardHolders(m)) <= 1

\* C23: when run completed the record of a topic before the deadline of the receive
\* awaited on it, receive returns that result: it never returns Timeout while the record
\* holds a result
C23_ResultNotTimeout ==
    [][\A t \in Tasks :
          (task[t].pc = "receive" /\ task'[t].pc = "timeout")
              => pending[task[t].token].result = <<>>]_vars

\* C24: the destructor of a topic always terminates and removes the token of the topic,
\* also while another task holds a guard of the pending table: no drop leaves the
\* destructor spinning
C24_DropTerminates ==
    [][\A t \in Tasks :
          (Live(t) /\ ~Live(t)') =>
              /\ ~hung'
              /\ task'[t].pc # "dropping"
              /\ task[t].token \notin DOMAIN pending']_vars

\* a topic was dropped at the timeout of its receive while another task, suspended in
\* send, holds a guard of the pending table
C24_Witness ==
    \E t, u \in Tasks :
        /\ task[t].pc = "timeout" /\ task[t].outcome = Timeout
        /\ task[u].pc \in {"send_tx", "write_header", "write_checksum", "write_data"}
        /\ "pending" \in task[u].holds
        /\ DOMAIN pending = {task[u].token}
        /\ ~hung

(***************************************************************************)
(* SpecAtomic: the slave of slave/src/main.rs: its user task counts in     *)
(* COUNTER and keeps OFFSETED = COUNTER + OFFSET, while the master reads   *)
(* the user registers, writes OFFSET and reads the virtual memory          *)
(***************************************************************************)
MaxCount == 3

\* the bytes of the user registers, from COUNTER to the end of OFFSETED
UserSpan == OFFSETED.address + OFFSETED.size - COUNTER.address

\* the values the master writes in OFFSET: both bytes differ from those of the others
OffsetValues == {<<1, 1>>, <<2, 2>>}

\* OFFSETED == COUNTER + OFFSET in a copy of the user registers that starts at COUNTER
Kept(bytes) ==
    FromBE32(SubSeq(bytes, OFFSETED.address - COUNTER.address + 1, UserSpan))
        = FromBE32(SubSeq(bytes, 1, 4)) + FromBE16(SubSeq(bytes, 5, 6))

\* the critical section of the user task: count = COUNTER + 1, COUNTER = count,
\* OFFSETED = count + OFFSET
UserRefresh(buffer) ==
    LET count == FromBE32(ReadBytes(buffer, COUNTER.address, 4)) + 1
        offset == FromBE16(ReadBytes(buffer, OFFSET.address, 2))
    IN  WriteBytes(WriteBytes(buffer, COUNTER.address, BE32(count)),
                   OFFSETED.address, BE32(count + offset))

\* the user task: one poll of slave.lock().await, then the critical section; the task
\* remembers the bytes of OFFSET it read
UserTick(i) ==
    /\ FromBE32(ReadBytes(slave[i].buffer, COUNTER.address, 4)) < MaxCount
    /\ LET t == TryNew(slave[i].buf_locked)
       IN  IF ~t.got
           THEN /\ slave' = [slave EXCEPT ![i].buf_locked = t.locked]
                /\ UNCHANGED task
           ELSE /\ slave' = [slave EXCEPT ![i].buf_locked = GuardDrop,
                                          ![i].buffer = UserRefresh(@)]
                /\ task' = <<[pc |-> "user", offset |-> ReadBytes(slave[i].buffer, OFFSET.address, 2)]>>
    /\ UNCHANGED <<chain, flight, sent, executedBy, mlock, pending, runs, wire, rx, hung, cu>>

AtomicCommands ==
    {[kind |-> "topological", host |-> 0, address |-> COUNTER.address, read |-> TRUE, write |-> FALSE,
      data |-> Zeros(UserSpan), token |-> 4720]}
    \cup
    {[kind |-> "topological", host |-> 0, address |-> OFFSET.address, read |-> r, write |-> TRUE,
      data |-> d, token |-> 4721] : r \in BOOLEAN, d \in OffsetValues}
    \cup
    {[kind |-> "topological", host |-> 0, address |-> MAPPING, read |-> FALSE, write |-> TRUE,
      data |-> MappingTableToBytes(2, ConfigureMap[Topological0]), token |-> 4722]}
    \cup
    {[kind |-> "virtual", host |-> 0, address |-> 0, read |-> TRUE, write |-> FALSE,
      data |-> Zeros(6), token |-> 4723]}

InitAtomic ==
    /\ chain = 1
    /\ slave = [i \in {1} |-> SlaveNew(TestDevice)]
    /\ ChainIdle
    /\ mlock = [receive |-> FALSE, transmit |-> FALSE, pending |-> FALSE]
    /\ pending = <<>>
    /\ task = <<[pc |-> "user", offset |-> <<0, 0>>]>>
    /\ runs = <<>>
    /\ wire = <<>>
    /\ rx = <<>>
    /\ hung = FALSE
    /\ cu = <<>>

NextAtomic ==
    \/ UserTick(1)
    \/ SlaveRun(1)
    \/ SlaveReceive(1)
    \/ SlaveLock(1)
    \/ \E c \in AtomicCommands : ChainSend(c)
    \/ ChainCollect

SpecAtomic == InitAtomic /\ [][NextAtomic]_vars

\* the step in which the slave, holding the buffer guard, ends its command
Answers == slave[1].pc \in {"exchange", "virtual"} /\ slave'[1].pc = "idle"

\* the payload the slave transmits in that step
Forwarded == SubSeq(flight'[1].bytes, HEADER + 2, Len(flight'[1].bytes))

DispatchToken == 4730

\* the commands of the awaiting topic: a topological read, a fixed exchange, a virtual write
DispatchStored ==
    {TopicCommand(DispatchToken, c) : c \in
        {[kind |-> "topological", host |-> 1, address |-> USER, read |-> TRUE, write |-> FALSE, data |-> Zeros(2)],
         [kind |-> "fixed", host |-> 7, address |-> USER, read |-> TRUE, write |-> TRUE, data |-> <<5, 6>>],
         [kind |-> "virtual", host |-> 0, address |-> 3, read |-> FALSE, write |-> TRUE, data |-> <<5, 6>>]}}

\* the frames that arrive: each field of the header as stored or not, with a payload of
\* header.size bytes whose checksum is the header's or not
DispatchFrames(stored) ==
    {[header |-> [token |-> token, access |-> access, executed |-> executed,
                  address |-> address, size |-> size,
                  checksum |-> (checksum(SubSeq(<<5, 6>>, 1, size)) + skew) % 256],
      data |-> SubSeq(<<5, 6>>, 1, size)] :
        token \in {DispatchToken, DispatchToken + 1},
        access \in {SetBit(MkAccess(r, w, f, t), 7, e) :
                        r \in BOOLEAN, w \in BOOLEAN, f \in BOOLEAN, t \in BOOLEAN, e \in BOOLEAN},
        executed \in {0, 2},
        address \in {stored.address, stored.address + 1,
                     AddrSetSlave(stored.address, (AddrSlave(stored.address) + 1) % U16)},
        size \in {1, 2},
        skew \in {0, 1}}

InitDispatch ==
    /\ ChainUnused
    /\ mlock = [receive |-> TRUE, transmit |-> FALSE, pending |-> FALSE]
    /\ \E stored \in DispatchStored :
          /\ pending = PendingInsert(<<>>, DispatchToken, stored, Zeros(2))
          /\ rx \in {<<f>> : f \in DispatchFrames(stored)}
    /\ task = <<>>
    /\ runs = <<[pc |-> "panicked", frame |-> <<>>], [pc |-> "read", frame |-> <<>>]>>
    /\ wire = <<>>
    /\ hung = FALSE
    /\ cu = <<>>

NextDispatch ==
    \/ \E r \in DOMAIN runs : RunRead(r)
    \/ \E r \in DOMAIN runs : RunLock(r)

SpecDispatch == InitDispatch /\ [][NextDispatch]_vars

\* the stored and the received header differ in fixed, topological, read, size or
\* address, where a topological command is compared by the register half of its address
HeaderDiffers(command, header) ==
    \/ AccFixed(command.access) # AccFixed(header.access)
    \/ AccTopological(command.access) # AccTopological(header.access)
    \/ AccRead(command.access) # AccRead(header.access)
    \/ command.size # header.size
    \/ IF AccTopological(command.access)
       THEN AddrRegister(command.address) # AddrRegister(header.address)
       ELSE command.address # header.address

\* the result the record of the frame's token is completed with
Completion(command, frame) ==
    IF HeaderDiffers(command, frame.header)
    THEN <<[kind |-> "master", value |-> "reponse header mismatch"]>>
    ELSE IF AccError(frame.header.access) THEN <<[kind |-> "slave", value |-> "Unknown"]>>
    ELSE IF frame.header.checksum # checksum(frame.data)
    THEN <<[kind |-> "master", value |-> "data checksum mismatch"]>>
    ELSE <<[kind |-> "ok", value |-> frame.header.executed]>>

\* C26: when run dispatches a frame whose token is pending, the record is completed with
\* a header mismatch, else with the slave error Unknown, else with a data checksum
\* mismatch, else with Ok(executed); the buffer of the record becomes the payload in the
\* last case and is left alone in the others; a frame whose token is not pending changes
\* nothing of the pending table
C26_Dispatch ==
    [][\A r \in DOMAIN runs :
          (runs[r].pc = "lock" /\ runs'[r].pc = "read") =>
              LET frame == runs[r].frame[1]
                  token == frame.header.token
              IN  IF token \notin DOMAIN pending
                  THEN pending' = pending
                  ELSE LET result == Completion(pending[token].command, frame)
                       IN  /\ pending'[token].result = result
                           /\ pending'[token].buffer =
                                 IF result[1].kind = "ok" THEN frame.data ELSE pending[token].buffer
                           /\ pending'[token].command = pending[token].command
                           /\ DOMAIN pending' = DOMAIN pending]_vars

\* a frame with the error flag and a wrong data checksum completed the record of the
\* fixed exchange with the slave error, and the buffer is still zeroed
C26_Witness ==
    /\ runs # <<>> /\ rx = <<>> /\ task = <<>>
    /\ DispatchToken \in DOMAIN pending
    /\ AccFixed(pending[DispatchToken].command.access)
    /\ pending[DispatchToken].result = <<[kind |-> "slave", value |-> "Unknown"]>>
    /\ pending[DispatchToken].buffer = Zeros(2)

\* the only slave of the chain is the one a direct command is addressed to
Addressed(header) ==
    \/ AccFixed(header.access) /\ ~AccTopological(header.access)
          /\ AddrSlave(header.address) = slave[1].address
    \/ AccTopological(header.access) /\ ~AccFixed(header.access)
          /\ AddrSlave(header.address) = 0

\* C27: the header a slave forwards differs from the one it received only by the slave
\* half of the address, decremented iff the command is topological, by executed,
\* incremented iff this slave executed the command (it did not if it refused it), by the
\* data checksum, recomputed iff this slave contributed read data, and by the error
\* flag, set iff this slave refused the command
C27_ForwardedHeader ==
    (Returned /\ chain = 1) =>
        LET rec == sent.header
            fwd == Response
            refused == AccError(fwd.access)
            executed == \/ Addressed(rec) /\ ~refused
                        \/ SentVirtual /\ MappingIntersects(slave[1].mapping, rec.address, rec.size)
        IN  /\ fwd.token = rec.token /\ fwd.size = rec.size
            /\ AccRead(fwd.access) = AccRead(rec.access)
            /\ AccWrite(fwd.access) = AccWrite(rec.access)
            /\ AccFixed(fwd.access) = AccFixed(rec.access)
            /\ AccTopological(fwd.access) = AccTopological(rec.access)
            /\ AddrRegister(fwd.address) = AddrRegister(rec.address)
            /\ AddrSlave(fwd.address) =
                  IF AccTopological(rec.access) THEN (AddrSlave(rec.address) + U16 - 1) % U16
                  ELSE AddrSlave(rec.address)
            /\ fwd.executed = IF executed THEN rec.executed + 1 ELSE rec.executed
            /\ fwd.checksum = IF executed /\ AccRead(rec.access) THEN checksum(ResponseData)
                              ELSE rec.checksum
            /\ refused <=> (Addressed(rec) /\ AddrRegister(rec.address) + rec.size > MEM)

\* C28: a frame the slave forwards without having contributed data to it, because the
\* command is addressed to another slave or was refused, carries the payload that was
\* received in that frame
C28_ForwardedPayload ==
    (Returned /\ chain = 1 /\ (SentFixed \/ SentTopological)
        /\ (~Addressed(sent.header) \/ AccError(Response.access)))
            => ResponseData = sent.data

(***************************************************************************)
(* SpecVirtualWrite: one slave, its user registers, its mapping table and  *)
(* writes and exchanges of the virtual memory                              *)
(***************************************************************************)
VirtualWriteCommands ==
    {[kind |-> "topological", host |-> 0, address |-> MAPPING, read |-> FALSE, write |-> TRUE,
      data |-> MappingTableToBytes(2, SubSeq(SampleEntries, 1, 2)), token |-> 4681]}
    \cup
    {[kind |-> "virtual", host |-> 0, address |-> a, read |-> r, write |-> TRUE,
      data |-> <<161, 162>>, token |-> 4683] : a \in 0..2, r \in BOOLEAN}

NextVirtualWrite ==
    \/ UserSet(1)
    \/ SlaveRun(1)
    \/ SlaveReceive(1)
    \/ SlaveLock(1)
    \/ \E c \in VirtualWriteCommands : ChainSend(c)
    \/ ChainCollect

SpecVirtualWrite == InitVirtual /\ [][NextVirtualWrite]_vars

\* the virtual addresses of the requested range that an active entry maps to the
\* buffer byte a
MappedTo(mapping, header, a) ==
    {v \in header.address..(header.address + header.size - 1) :
        \E k \in 1..Len(mapping) :
            /\ mapping[k].virtual_start <= v
            /\ v < mapping[k].virtual_start + mapping[k].size
            /\ mapping[k].slave_start + (v - mapping[k].virtual_start) = a}

\* C29: a slave that processed a virtual write whose data checksum is right holds, in
\* every buffer byte an active entry maps to a virtual address of the requested range,
\* the payload byte of that address, and left every other buffer byte as it was; with
\* read set, the response carries at those addresses the bytes the buffer held before,
\* and the checksum of the response payload
C29_VirtualWrite ==
    [][LET s == slave'[1]
           header == s.recv_header
           before == slave[1].buffer
       IN  (/\ slave[1].pc \in {"idle", "virtual"} /\ s.pc = "idle"
            /\ flight' # <<>> /\ flight'[1].at = 2 /\ flight' # flight
            /\ ~AccFixed(header.access) /\ ~AccTopological(header.access)
            /\ AccWrite(header.access)
            /\ header.checksum = checksum(s.receive))
           =>
           /\ \A a \in USER..(USER + 7) :
                 LET from == MappedTo(s.mapping, header, a)
                 IN  IF from = {} THEN BufAt(s.buffer, a) = BufAt(before, a)
                     ELSE \E v \in from : BufAt(s.buffer, a) = s.receive[v - header.address + 1]
           /\ AccRead(header.access) =>
                 /\ \A a \in USER..(USER + 7) :
                       \A v \in MappedTo(s.mapping, header, a) :
                           Forwarded[v - header.address + 1] = BufAt(before, a)
                 /\ CommandFromBytes(SubSeq(flight'[1].bytes, 1, HEADER)).checksum = checksum(Forwarded)]_vars

\* C30: a slave takes its buffer mutex for a virtual command only when an active entry
\* of its mapping intersects the requested range [address, address + size): an entry
\* that starts at address + size does not make the slave wait for its buffer
C30_NoLockWithoutIntersection ==
    \A i \in Positions :
        slave[i].pc = "virtual" =>
            MappingIntersects(slave[i].mapping, slave[i].recv_header.address, slave[i].recv_header.size)

(***************************************************************************)
(* SpecOversize: one slave receives refused commands, writes of ERROR and  *)
(* a header whose size field is above MAX_COMMAND                          *)
(***************************************************************************)
ErrInvalidSize == 3

\* a header that announces one byte more than MAX_COMMAND; the slave reads no payload
OversizeFrame ==
    [header |-> [token |-> 4740, access |-> MkAccess(FALSE, TRUE, FALSE, TRUE), executed |-> 0,
                 address |-> AddressNew(0, USER), size |-> MAX_COMMAND + 1, checksum |-> 0],
     data |-> <<>>]

NextOversize ==
    \/ SlaveRun(1)
    \/ SlaveReceive(1)
    \/ SlaveLock(1)
    \/ \E f \in ErrorFrames \cup {OversizeFrame} : ChainSendFrame(f.header, f.data)
    \/ ChainCollect

SpecOversize == InitError /\ [][NextOversize]_vars

\* C31: a slave that received a header whose size is above MAX_COMMAND refuses it with
\* InvalidSize: it goes on to record the error and to transmit the header with the error
\* flag, and ERROR holds InvalidSize afterwards if it held None
C31_OversizeRefused ==
    [][(/\ Incoming(1) /\ slave[1].running /\ slave[1].pc = "idle"
        /\ sent.header.size > MAX_COMMAND
        /\ flight' # flight)
       => /\ slave'[1].pc = "error"
          /\ slave'[1].err = ErrInvalidSize]_vars

\* C32: a command with both the fixed and the topological flag is refused with
\* InvalidCommand, a command for this slave whose range ends after the buffer with
\* InvalidRegister; the refusal puts its code in ERROR if ERROR held None, changes no
\* other byte of the buffer, and the header is forwarded with the error flag
C32_Refusals ==
    [][LET s == slave[1]
           n == slave'[1]
           header == s.recv_header
       IN  /\ (Incoming(1) /\ s.running /\ s.pc = "idle" /\ flight' # flight
               /\ AccFixed(sent.header.access) /\ AccTopological(sent.header.access))
              => (n.pc = "error" /\ n.err = ErrInvalidCommand /\ n.buffer = s.buffer)
           /\ (s.pc = "exchange" /\ n.pc # "exchange"
               /\ AddrRegister(header.address) + header.size > MEM)
              => (n.pc = "error" /\ n.err = ErrInvalidRegister /\ n.buffer = s.buffer)
           /\ (s.pc = "error" /\ n.pc = "idle")
              => /\ BufAt(n.buffer, ERROR) =
                       IF BufAt(s.buffer, ERROR) = ErrNone THEN s.err ELSE BufAt(s.buffer, ERROR)
                 /\ \A a \in (DOMAIN s.buffer \cup DOMAIN n.buffer) \ {ERROR} :
                       BufAt(n.buffer, a) = BufAt(s.buffer, a)
                 /\ AccError(CommandFromBytes(SubSeq(flight'[1].bytes, 1, HEADER)).access)]_vars

\* the read beyond the buffer came back refused, and ERROR, that held None, holds
\* InvalidRegister
C32_Witness ==
    /\ Returned /\ sent = OutOfBufferFrame
    /\ AccError(Response.access)
    /\ BufAt(slave[1].buffer, ERROR) = ErrInvalidRegister

(***************************************************************************)
(* SpecTable: one slave receives mapping tables, in any order of entries,  *)
(* with zero-size entries, with an entry beyond the buffer, with a size    *)
(* above the capacity, and reads of the virtual memory                     *)
(***************************************************************************)
EntryHigh == [virtual_start |-> 4, slave_start |-> USER, size |-> 2]
EntryLow == [virtual_start |-> 0, slave_start |-> USER + 2, size |-> 2]
EntryEmpty == [virtual_start |-> 2, slave_start |-> USER + 4, size |-> 0]
EntryBeyond == [virtual_start |-> 6, slave_start |-> MEM - 1, size |-> 2]

\* the tables written: the size byte and the entries that follow it
TableWrites ==
    {[size |-> 2, entries |-> <<EntryHigh, EntryLow>>],
     [size |-> 3, entries |-> <<EntryHigh, EntryEmpty, EntryLow>>],
     [size |-> 1, entries |-> <<EntryLow, EntryHigh>>],
     [size |-> 0, entries |-> <<>>],
     [size |-> 1, entries |-> <<EntryBeyond>>],
     [size |-> TABLE_CAPACITY + 1, entries |-> <<EntryHigh>>]}

TableCommands ==
    {[kind |-> "topological", host |-> 0, address |-> MAPPING, read |-> FALSE, write |-> TRUE,
      data |-> MappingTableToBytes(t.size, t.entries), token |-> 4750] : t \in TableWrites}
    \cup
    {[kind |-> "virtual", host |-> 0, address |-> a, read |-> TRUE, write |-> FALSE,
      data |-> <<0, 0>>, token |-> 4751] : a \in {0, 6}}

NextTable ==
    \/ SlaveRun(1)
    \/ SlaveReceive(1)
    \/ SlaveLock(1)
    \/ \E c \in TableCommands : ChainSend(c)
    \/ ChainCollect

SpecTable == InitVirtual /\ [][NextTable]_vars

\* the first table.size entries of the table held by the MAPPING register of a buffer
TableOf(buffer) ==
    [k \in 1..BufAt(buffer, MAPPING) |->
        MappingFromBytes(ReadBytes(buffer, MAPPING + 1 + 8 * (k - 1), 8))]

Sorted(mapping) ==
    \A j, k \in 1..Len(mapping) : j < k => mapping[j].virtual_start <= mapping[k].virtual_start

\* the number of times the entry e occurs in the sequence
Occurrences(seq, e) == Cardinality({k \in 1..Len(seq) : seq[k] = e})

\* the slave, holding its buffer, executes a write that starts at the MAPPING register
MappingWritten ==
    /\ slave[1].pc = "exchange" /\ slave'[1].pc # "exchange"
    /\ slave'[1].buffer # slave[1].buffer
    /\ AccWrite(slave[1].recv_header.access)
    /\ AddrRegister(slave[1].recv_header.address) = MAPPING

\* C33: after a write at MAPPING the active mapping holds the entries of non-zero size
\* among the first table.size entries of the table, each as many times as the table
\* holds it, in ascending order of virtual_start; the active mapping is sorted always
C33_ActiveMapping ==
    [][/\ Sorted(slave'[1].mapping)
       /\ MappingWritten =>
            LET table == TableOf(slave'[1].buffer)
                active == slave'[1].mapping
            IN  /\ \A k \in 1..Len(active) : active[k].size # 0
                /\ \A k \in 1..Len(active) :
                      Occurrences(active, active[k]) = Occurrences(table, active[k])
                /\ \A k \in 1..Len(table) :
                      table[k].size # 0 => Occurrences(active, table[k]) = Occurrences(table, table[k])]_vars

\* C34: every entry of the active mapping of a slave lies inside the buffer and the
\* virtual address space and has a size above zero, whatever tables were written, and
\* no virtual command makes the slave reach outside its buffer
C34_EntriesInBuffer ==
    \A i \in Positions :
        /\ \A k \in 1..Len(slave[i].mapping) :
              LET m == slave[i].mapping[k]
              IN  /\ m.slave_start + m.size <= MEM
                  /\ (m.virtual_start + m.size) \div U16 <= U16
                  /\ m.size > 0
        /\ ~(slave[i].pc = "panicked" /\ ~AccFixed(slave[i].recv_header.access)
                /\ ~AccTopological(slave[i].recv_header.access))

\* C35: a write at MAPPING of a table whose size byte is above the capacity of 128
\* entries puts InvalidMapping in ERROR if it held None, leaves the active mapping as it
\* was, and the slave goes on serving commands
C35_OverCapacity ==
    [][(MappingWritten /\ BufAt(slave'[1].buffer, MAPPING) > TABLE_CAPACITY) =>
          /\ slave'[1].mapping = slave[1].mapping
          /\ BufAt(slave'[1].buffer, ERROR) =
                IF BufAt(slave[1].buffer, ERROR) = ErrNone THEN ErrInvalidMapping
                ELSE BufAt(slave[1].buffer, ERROR)
          /\ slave'[1].running
          /\ slave'[1].pc = "idle"]_vars

\* C36: Slave::run invoked on a slave whose control block is free (a fresh slave) takes
\* the control block and serves frames from then on
C36_RunServes ==
    [][\A i \in Positions :
          (~slave[i].running /\ ~slave[i].ctl_locked /\ slave'[i].ctl_locked)
              => slave'[i].running]_vars

\* the topic of task t exists and has not yet written a whole frame on the bus
NothingSent(t) ==
    task[t].pc \in {"send_lock", "send_tx", "write_header", "write_checksum", "write_data"}

\* C37: a result delivered to a topic comes from a frame this topic sent: the record of a
\* topic that has sent nothing yet holds no result, even when its token was used by a
\* topic dropped before
C37_OwnResponse ==
    \A t \in Tasks :
        (NothingSent(t) /\ task[t].token \in DOMAIN pending)
            => pending[task[t].token].result = <<>>

(***************************************************************************)
(* SpecProtect: a header is written with its checksum, then one of its     *)
(* bytes is replaced on the way                                            *)
(***************************************************************************)
ProtectHeaders ==
    [token : {0, 258, U16 - 1},
     access : {MkAccess(TRUE, FALSE, TRUE, FALSE), MkAccess(FALSE, TRUE, FALSE, TRUE)},
     executed : {0, 1},
     address : {0, AddressNew(1, VERSION)},
     size : {0, 4, MAX_COMMAND - 1},
     checksum : {0, CHECKSUM_INITIAL}]

\* the values a replaced byte takes
ProtectBytes == {0, 1, 128, 255}

InitProtect ==
    /\ chain = 0
    /\ slave = <<>>
    /\ flight = <<>>
    /\ executedBy = {}
    /\ sent \in [header : ProtectHeaders, data : {<<>>}]
    /\ mlock = [receive |-> FALSE, transmit |-> FALSE, pending |-> FALSE]
    /\ pending = <<>>
    /\ task = <<>>
    /\ runs = <<>>
    /\ wire = <<>>
    /\ rx = <<>>
    /\ hung = FALSE
    /\ cu = <<>>

\* write_all(&header), write_all(&checksum(&header).to_be_bytes())
ProtectWrite ==
    /\ wire = <<>>
    /\ wire' = FrameBytes(sent.header, <<>>)
    /\ UNCHANGED <<chain, slave, flight, sent, executedBy, mlock, pending, task, runs, rx, hung, cu>>

\* one of the HEADER bytes arrives with another value, the checksum byte as written
ProtectReplace ==
    /\ wire # <<>> /\ rx = <<>>
    /\ \E k \in 1..HEADER, b \in ProtectBytes :
          /\ b # wire[k]
          /\ rx' = <<[wire EXCEPT ![k] = b]>>
    /\ UNCHANGED <<chain, slave, flight, sent, executedBy, mlock, pending, task, runs, wire, hung, cu>>

NextProtect == ProtectWrite \/ ProtectReplace

SpecProtect == InitProtect /\ [][NextProtect]_vars

\* C38: a header in which one byte was replaced by another value does not pass the
\* header checksum of catch_header and of the master's run
C38_EveryByteProtected ==
    rx # <<>> => ~HeaderValid(rx[1])

(***************************************************************************)
(* SpecAddress: one slave receives writes of its ADDRESS register, whole   *)
(* at offset 0 or of its low byte alone at offset 1, and fixed reads       *)
(***************************************************************************)
\* a topological write of data at register
AddressWriteFrame(register, data) ==
    [header |-> [token |-> 4760, access |-> MkAccess(FALSE, TRUE, FALSE, TRUE), executed |-> 0,
                 address |-> AddressNew(0, register), size |-> Len(data), checksum |-> checksum(data)],
     data |-> data]

\* a read of VERSION for the fixed address id
FixedReadFrame(id) ==
    [header |-> [token |-> 4761, access |-> MkAccess(TRUE, FALSE, TRUE, FALSE), executed |-> 0,
                 address |-> AddressNew(id, VERSION), size |-> 1, checksum |-> checksum(<<0>>)],
     data |-> <<0>>]

AddressFrames ==
    {AddressWriteFrame(ADDRESS, <<0, 2>>), AddressWriteFrame(ADDRESS, <<0, 0>>),
     AddressWriteFrame(ADDRESS + 1, <<3>>), AddressWriteFrame(ADDRESS + 1, <<2>>),
     FixedReadFrame(2), FixedReadFrame(3)}

NextAddress ==
    \/ SlaveRun(1)
    \/ SlaveReceive(1)
    \/ SlaveLock(1)
    \/ \E f \in AddressFrames : ChainSendFrame(f.header, f.data)
    \/ ChainCollect

SpecAddress == InitError /\ [][NextAddress]_vars

\* C39: between two commands the address a slave compares fixed commands with is the
\* value of its ADDRESS register, whatever offset the write that changed it started at
C39_AddressFollowsRegister ==
    \A i \in Positions :
        slave[i].pc = "idle" => slave[i].address = AddressRegister(i)

(***************************************************************************)
(* SpecFromIter: a table is built by MappingTable::from_iter from a list   *)
(* of entries, then written to the MAPPING register of one slave           *)
(***************************************************************************)
EntryThird == [virtual_start |-> 8, slave_start |-> USER + 4, size |-> 2]

\* the lists given to from_iter: none, one, two and three entries, and one entry more
\* than the table holds
IterLists ==
    {<<>>, <<EntryLow>>, <<EntryLow, EntryHigh>>, <<EntryHigh, EntryLow>>,
     <<EntryHigh, EntryLow, EntryThird>>, ManyEntries}

\* MappingTable::from_iter: each item sets map[i] and size = i, its own index
from_iter(items) ==
    IF Len(items) > TABLE_CAPACITY
    THEN [ok |-> FALSE, size |-> 0, map |-> <<>>]
    ELSE [ok |-> TRUE,
          size |-> Max(Len(items) - 1, 0),
          map |-> [k \in 1..TABLE_CAPACITY |-> IF k <= Len(items) THEN items[k] ELSE MappingDefault]]

InitFromIter ==
    /\ chain = 1
    /\ slave = [i \in {1} |-> SlaveNew(TestDevice)]
    /\ ChainIdle
    /\ mlock = [receive |-> FALSE, transmit |-> FALSE, pending |-> FALSE]
    /\ pending = <<>>
    /\ task \in {<<[pc |-> "idle", items |-> l, table |-> from_iter(<<>>)]>> : l \in IterLists}
    /\ runs = <<>>
    /\ wire = <<>>
    /\ rx = <<>>
    /\ hung = FALSE
    /\ cu = <<>>

\* let table = MappingTable::from_iter(items)
FromIter ==
    /\ task[1].pc = "idle"
    /\ task' = <<[task[1] EXCEPT !.pc = "built", !.table = from_iter(task[1].items)]>>
    /\ UNCHANGED <<chain, slave, flight, sent, executedBy, mlock, pending, runs, wire, rx, hung, cu>>

\* the table, when from_iter returned one, is written to the MAPPING register
FromIterWrite ==
    /\ task[1].pc = "built"
    /\ task[1].table.ok
    /\ ChainSend([kind |-> "topological", host |-> 0, address |-> MAPPING, read |-> FALSE,
                  write |-> TRUE, token |-> 4770,
                  data |-> MappingTableToBytes(task[1].table.size, task[1].table.map)])

\* a read of the virtual memory, answered through the entries the slave holds
FromIterRead ==
    /\ task[1].pc = "built"
    /\ \E a \in {0, 4} :
          ChainSend([kind |-> "virtual", host |-> 0, address |-> a, read |-> TRUE, write |-> FALSE,
                     token |-> 4771, data |-> <<0, 0>>])

NextFromIter ==
    \/ FromIter
    \/ FromIterWrite
    \/ FromIterRead
    \/ SlaveRun(1)
    \/ SlaveReceive(1)
    \/ SlaveLock(1)
    \/ ChainCollect

SpecFromIter == InitFromIter /\ [][NextFromIter]_vars

\* C40: from_iter of n <= 128 entries returns a table of size n that starts with the
\* entries in order, the rest being of size zero, and a slave that executed the write of
\* this table holds the n entries; from_iter of more entries returns an error
C40_FromIter ==
    task[1].pc = "built" =>
        LET items == task[1].items
            table == task[1].table
        IN  IF Len(items) > TABLE_CAPACITY
            THEN ~table.ok
            ELSE /\ table.ok
                 /\ table.size = Len(items)
                 /\ \A k \in 1..TABLE_CAPACITY :
                       IF k <= Len(items) THEN table.map[k] = items[k] ELSE table.map[k].size = 0
                 /\ (Returned /\ 1 \in executedBy) => Len(slave[1].mapping) = Len(items)

====
